---------------------------- MODULE Spec2Model ----------------------------
(***************************************************************************)
(* State-machine model of the texture import / texture animation export    *)
(* layer of the Blender NIF add-on (io_scene_niftools).                     *)
(*                                                                         *)
(* Python strings are modelled as sequences of one-character strings, so   *)
(* that lower(), slicing, find(), os.path.join/basename/dirname are        *)
(* computed character by character as the code computes them.              *)
(***************************************************************************)
EXTENDS Integers, Sequences, FiniteSets, TLC

VARIABLES
    \* ---- texture loader (nif_import/property/texture/loader.py) ----
    filepath,            \* NifOp.props.filepath
    texture_directory,   \* bpy.context.preferences.filepaths.texture_directory
    files,               \* paths of the files that exist on disk
    corrupt,             \* existing files whose content Blender cannot load
    images,              \* bpy.data.images
    external_textures,   \* TextureLoader.external_textures (class attribute)
    writes,              \* log of the paths opened with open(path, "wb")
    lcall,               \* the last loader call: its input and its outcome
    \* ---- texture animation export (nif_export/animation/texture.py) ----
    properties,          \* per object: the property types of DICT_NAMES[name]
    fps,                 \* AnimationCommon.fps
    block_store,         \* blocks created by block_store.create_block, in order
    texprop_controller,  \* per object: NiTexturingProperty.controller
    seq_block,           \* fields of n_ni_controller_sequence.add_block
    target_controllers,  \* controllers attached to the flip target property
    geometry_controllers, \* controllers attached to n_ni_geometry, the blocks themselves
    warnings,            \* number of NifLog.warn calls
    acall,               \* the last animation call: its input and its outcome
    \* ---- object property export (nif_export/property/object.py) ----
    game,                \* bpy.context.scene.niftools_scene.game
    epsilon,             \* NifOp.props.epsilon, in thousandths
    block_to_obj,        \* block_store.block_to_obj: the registry, in insertion order
    node_properties,     \* the property list of n_node: indices into the registry
    root_extra_data,     \* the extra data list of n_root_node: the blocks added, each
                         \* with its registry position (0 when it is not registered)
    pcall,               \* the last property export call: its input and its outcome
    \* ---- texturing property export (nif_export/property/texture/texture.py) ----
    instance,            \* NiTexturingProperty.__instance: 0 for None, else its id
    constructed,         \* number of NiTexturingProperty objects fully constructed
    has_b_mat,           \* NiTexturingProperty.b_mat holds a material
    tcall,               \* the last two table, UV or singleton calls and their outcomes
    \* ---- node tree import (nif_import/property/nodes_wrapper/__init__.py) ----
    tree_nodes,          \* b_mat.node_tree.nodes, in creation order
    tree_links,          \* b_mat.node_tree.links, in creation order
    node_groups,         \* names of bpy.data.node_groups
    diffuse_pass,        \* NodesWrapper.diffuse_pass: a node index, 0 for None
    diffuse_texture,     \* NodesWrapper.diffuse_texture: a node index, 0 for None
    vcol,                \* NodesWrapper.vcol: a node index, 0 for None
    b_material,          \* NodesWrapper.b_mat: the fields of the material read or set
    ncall                \* the last call on the node tree: its input and its outcome

loaderVars == <<filepath, texture_directory, files, corrupt, images,
                external_textures, writes, lcall>>
animVars == <<properties, fps, block_store, texprop_controller, seq_block,
              target_controllers, geometry_controllers, warnings, acall>>
propVars == <<game, epsilon, block_to_obj, node_properties, root_extra_data, pcall>>
texVars == <<instance, constructed, has_b_mat, tcall>>
nodeVars == <<tree_nodes, tree_links, node_groups, diffuse_pass, diffuse_texture, vcol, b_material, ncall>>
otherVars == <<propVars, texVars, nodeVars>>
vars == <<loaderVars, animVars, otherVars>>

-----------------------------------------------------------------------------
(***************************************************************************)
(* Python str operations                                                   *)
(***************************************************************************)

\* The cased characters that have a lower-case form of their own: A to Z and
\* the capital letters of Latin-1 (characters above U+00FF are not written
\* in this module)
UpperCase ==
    <<"A", "B", "C", "D", "E", "F", "G", "H", "I", "J", "K", "L", "M",
       "N", "O", "P", "Q", "R", "S", "T", "U", "V", "W", "X", "Y", "Z",
       "À", "Á", "Â", "Ã", "Ä", "Å", "Æ", "Ç", "È", "É", "Ê", "Ë", "Ì",
       "Í", "Î", "Ï", "Ð", "Ñ", "Ò", "Ó", "Ô", "Õ", "Ö", "Ø", "Ù", "Ú",
       "Û", "Ü", "Ý", "Þ">>

\* Their lower-case forms, position by position
LowerCase ==
    <<"a", "b", "c", "d", "e", "f", "g", "h", "i", "j", "k", "l", "m",
       "n", "o", "p", "q", "r", "s", "t", "u", "v", "w", "x", "y", "z",
       "à", "á", "â", "ã", "ä", "å", "æ", "ç", "è", "é", "ê", "ë", "ì",
       "í", "î", "ï", "ð", "ñ", "ò", "ó", "ô", "õ", "ö", "ø", "ù", "ú",
       "û", "ü", "ý", "þ">>

\* The lower-case letter of every upper-case letter
LowerOf ==
    [c \in {UpperCase[i] : i \in DOMAIN UpperCase} |->
        LowerCase[CHOOSE i \in DOMAIN UpperCase : UpperCase[i] = c]]

\* one character of str.lower()
LowerChar(c) == IF c \in DOMAIN LowerOf THEN LowerOf[c] ELSE c

\* str.lower()
Lower(s) == [i \in 1..Len(s) |-> LowerChar(s[i])]

\* str.replace(old, new) for one-character old and new
Replace(s, old, new) == [i \in 1..Len(s) |-> IF s[i] = old THEN new ELSE s[i]]

\* s[:n] for n >= 0
Prefix(s, n) == IF n <= 0 THEN <<>> ELSE SubSeq(s, 1, IF n < Len(s) THEN n ELSE Len(s))

\* s[n:] for n >= 0
DropFirst(s, n) == IF n >= Len(s) THEN <<>> ELSE SubSeq(s, n + 1, Len(s))

\* s[:-n] for n > 0
DropLast(s, n) == IF n >= Len(s) THEN <<>> ELSE SubSeq(s, 1, Len(s) - n)

\* s[-n:] for n > 0
Suffix(s, n) == IF n >= Len(s) THEN s ELSE SubSeq(s, Len(s) - n + 1, Len(s))

\* s.startswith(p)
StartsWith(s, p) == Len(p) <= Len(s) /\ SubSeq(s, 1, Len(p)) = p

\* s.endswith(p)
EndsWith(s, p) == Len(p) <= Len(s) /\ Suffix(s, Len(p)) = p

\* s.find(sub): the lowest 0-based index of sub in s, -1 when absent
Find(s, sub) ==
    LET hits == {i \in 0..(Len(s) - Len(sub)) : SubSeq(s, i + 1, i + Len(sub)) = sub}
    IN IF hits = {} THEN -1 ELSE CHOOSE i \in hits : \A j \in hits : i <= j

\* os.sep (the add-on's "ignore case on linux" target)
OsSep == "/"

\* 1-based position of the last os.sep of p, 0 when p has none
LastSep(p) ==
    LET at == {i \in 1..Len(p) : p[i] = OsSep}
    IN IF at = {} THEN 0 ELSE CHOOSE i \in at : \A j \in at : j <= i

\* os.path.basename
Basename(p) == DropFirst(p, LastSep(p))

\* os.path.dirname
Dirname(p) ==
    LET Stripped(head) ==
            IF head # <<>> /\ \E i \in 1..Len(head) : head[i] # OsSep
            THEN Prefix(head, CHOOSE i \in 1..Len(head) :
                                 /\ head[i] # OsSep
                                 /\ \A j \in (i + 1)..Len(head) : head[j] = OsSep)
            ELSE head
    IN Stripped(Prefix(p, LastSep(p)))

\* os.path.join(a, b)
Join(a, b) ==
    IF StartsWith(b, <<OsSep>>) THEN b
    ELSE IF a = <<>> \/ EndsWith(a, <<OsSep>>) THEN a \o b
    ELSE a \o <<OsSep>> \o b

-----------------------------------------------------------------------------
(***************************************************************************)
(* Texture loader: environment                                             *)
(***************************************************************************)

\* os.getcwd(): "/w"
Cwd == <<"/", "w">>

\* directory of the open .blend file, the base of "//" paths: "/b"
BlendDir == <<"/", "b">>

\* The NIF file of the node tree import: "/p/m.nif"
NifPath == <<"/", "p", "/", "m", ".", "n", "i", "f">>

\* NIF files below a "Meshes" directory: "/art/Meshes/m.nif", whose path
\* holds "art" too, and "/g/Meshes/m.nif", whose path does not
ArtMeshesPath == <<"/", "a", "r", "t", "/", "M", "e", "s", "h", "e", "s", "/", "m", ".", "n", "i", "f">>
GameMeshesPath == <<"/", "g", "/", "M", "e", "s", "h", "e", "s", "/", "m", ".", "n", "i", "f">>

\* Values of NifOp.props.filepath
FilePaths == {NifPath, ArtMeshesPath, GameMeshesPath}

\* Values of the user's texture directory: unset, "/t", "//t"
TextureDirectories == { <<>>, <<"/", "t">>, <<"/", "/", "t">> }

\* The settings of an import run: every texture directory next to
\* "/p/m.nif", none below the "Meshes" directories
ImportSettings ==
    {<<NifPath, texdir>> : texdir \in TextureDirectories}
    \cup {<<ArtMeshesPath, <<>> >>, <<GameMeshesPath, <<>> >>}

\* Stored texture names: "Ab.dds", "s\Ab.dds", "textures/Ab.tga"
FnAb == <<"A", "b", ".", "d", "d", "s">>
FnSubAb == <<"s", "\\", "A", "b", ".", "d", "d", "s">>
FnTexAb == <<"t", "e", "x", "t", "u", "r", "e", "s", "/", "A", "b", ".", "t", "g", "a">>

\* A stored name whose capital letter is not an ASCII letter: "É.dds"
FnEAcute == <<"É", ".", "d", "d", "s">>

\* Stored names that are not in their shortest form: "./Ab.dds",
\* "s//../Ab.dds"
FnDotAb == <<".", "/", "A", "b", ".", "d", "d", "s">>
FnUpAb == <<"s", "/", "/", ".", ".", "/", "A", "b", ".", "d", "d", "s">>

\* file_name values of embedded sources: "Ab.tga", "s/Ab.dds", "q/Ab.dds",
\* and "s", the name of a directory next to the NIF file
FnAbTga == <<"A", "b", ".", "t", "g", "a">>
FnDirAb == <<"s", "/", "A", "b", ".", "d", "d", "s">>
FnNoDirAb == <<"q", "/", "A", "b", ".", "d", "d", "s">>
FnS == <<"s">>

\* A texture source: a NiSourceTexture with its file_name and its
\* pixel_data, a str (its text in file_name), or an object of another kind:
\* an int (its decimal digits in file_name).
\* pixel_data is "dds" for a payload save_as_dds writes, "unsupported" for
\* one whose pixel format it rejects with ValueError, "none" where the
\* source carries no payload
Source(kind, file_name, pixel_data) ==
    [kind |-> kind, file_name |-> file_name, pixel_data |-> pixel_data]

\* Sources handed to import_external_source: a path string or a
\* NiSourceTexture, with a name or with the empty name, and an object that is
\* neither of the two, truthy and falsy
ExternalSources ==
    { Source("str", FnAb, "none"),
      Source("NiSourceTexture", FnSubAb, "none"),
      Source("str", FnTexAb, "none"),
      Source("str", FnEAcute, "none"),
      Source("str", FnDotAb, "none"),
      Source("NiSourceTexture", FnUpAb, "none"),
      Source("str", <<>>, "none"),
      Source("NiSourceTexture", <<>>, "none"),
      Source("int", <<"7">>, "none"),
      Source("int", <<"0">>, "none") }

\* Sources handed to import_embedded_texture_source: without a file name or
\* with a .dds name and any payload; with another extension, with a
\* directory component (existing, missing), not in its shortest form, and
\* with the name of a directory
EmbeddedSources ==
    { Source("NiSourceTexture", n, pixel_data) :
        n \in {<<>>, FnAb}, pixel_data \in {"dds", "unsupported", "none"} }
    \cup { Source("NiSourceTexture", n, "dds") :
             n \in {FnAbTga, FnDirAb, FnNoDirAb, FnDotAb, FnS} }

\* Files that may exist on disk before the import
PAb == <<"/", "p", "/", "A", "b", ".", "d", "d", "s">>
PabLower == <<"/", "p", "/", "a", "b", ".", "d", "d", "s">>
PABUpper == <<"/", "p", "/", "A", "B", ".", "d", "d", "s">>
PAbPNG == <<"/", "p", "/", "A", "b", ".", "P", "N", "G">>
PSubAb == <<"/", "p", "/", "s", "/", "A", "b", ".", "d", "d", "s">>
PImage0 == <<"/", "p", "/", "i", "m", "a", "g", "e", "0", "0", "0", "0", ".", "d", "d", "s">>
TAb == <<"/", "t", "/", "A", "b", ".", "d", "d", "s">>
BTabJpg == <<"/", "b", "/", "t", "/", "a", "b", ".", "j", "p", "g">>
NifDirAb == <<"/", "w", "/", "n", "i", "f", "/", "A", "b", ".", "d", "d", "s">>
MeshesAbTga == <<"/", "a", "r", "t", "/", "M", "e", "s", "h", "e", "s", "/", "a", "b", ".", "t", "g", "a">>
TexturesAbTga == <<"/", "a", "r", "t", "/", "t", "e", "x", "t", "u", "r", "e", "s", "/", "A", "b", ".", "t", "g", "a">>
TexturesAb == <<"/", "a", "r", "t", "/", "t", "e", "x", "t", "u", "r", "e", "s", "/", "A", "b", ".", "d", "d", "s">>
SharedAb == <<"/", "s", "h", "a", "r", "e", "d", "/", "A", "b", ".", "d", "d", "s">>
GameTexturesAb == <<"/", "g", "/", "t", "e", "x", "t", "u", "r", "e", "s", "/", "a", "b", ".", "d", "d", "s">>
PEAcuteLower == <<"/", "p", "/", "é", ".", "d", "d", "s">>
PEAcutePng == <<"/", "p", "/", "é", ".", "p", "n", "g">>

FileUniverse ==
    { PAb, PabLower, PABUpper, PAbPNG, PSubAb, PImage0, TAb, BTabJpg, NifDirAb,
      MeshesAbTga, TexturesAbTga, TexturesAb, SharedAb, GameTexturesAb,
      PEAcuteLower, PEAcutePng }

\* The disks an import run can start on: the empty disk, every single file,
\* and the pairs that put two candidates into one directory or into two
\* directories of the search order
InitialDisks ==
    {fs \in SUBSET FileUniverse : Cardinality(fs) <= 1}
    \cup { {PAb, PabLower}, {PabLower, PABUpper}, {PabLower, PAbPNG}, {PAb, PSubAb},
           {PAb, TAb}, {TAb, NifDirAb}, {BTabJpg, NifDirAb}, {NifDirAb, TexturesAb},
           {NifDirAb, SharedAb}, {TexturesAb, SharedAb}, {MeshesAbTga, TexturesAbTga},
           {PImage0, PAb}, {PABUpper, TAb}, {PEAcuteLower, PEAcutePng},
           {NifDirAb, GameTexturesAb} }

\* Directories that exist on disk
Directories ==
    { <<"/">>, <<"/", "b">>, <<"/", "w">>, <<"/", "a", "r", "t">>, <<"/", "g">>,
      <<"/", "p">>, <<"/", "p", "/", "s">>, <<"/", "t">>, <<"/", "b", "/", "t">>,
      <<"/", "w", "/", "n", "i", "f">>,
      <<"/", "a", "r", "t", "/", "M", "e", "s", "h", "e", "s">>,
      <<"/", "a", "r", "t", "/", "M", "e", "s", "h", "e", "s", "/", "s">>,
      <<"/", "a", "r", "t", "/", "t", "e", "x", "t", "u", "r", "e", "s">>,
      <<"/", "g", "/", "M", "e", "s", "h", "e", "s">>,
      <<"/", "g", "/", "t", "e", "x", "t", "u", "r", "e", "s">>,
      <<"/", "s", "h", "a", "r", "e", "d">> }

\* Number of loader calls in one run
MaxCalls == 2

\* Number of searches on one disk
MaxSearches == 1

-----------------------------------------------------------------------------
(***************************************************************************)
(* Texture loader: TextureLoader                                           *)
(***************************************************************************)

\* No image / no path (the value of a result that was never produced)
NoImage == [name |-> <<>>, filepath |-> <<>>, generated |-> FALSE,
            width |-> 0, height |-> 0]

\* bpy.path.abspath: a "//" path is relative to the .blend file's directory
BlenderAbspath(p) ==
    IF StartsWith(p, <<"/", "/">>) THEN Join(BlendDir, DropFirst(p, 2)) ELSE p

\* The names between the separators of a path, the empty ones left out
RECURSIVE Components(_)
Components(p) ==
    IF p = <<>> THEN <<>>
    ELSE LET FirstOf(seps) == IF seps = {} THEN Len(p) + 1
                              ELSE CHOOSE i \in seps : \A j \in seps : i <= j
             SplitAt(first) == (IF first = 1 THEN <<>> ELSE <<Prefix(p, first - 1)>>)
                               \o Components(DropFirst(p, first))
         IN SplitAt(FirstOf({i \in 1..Len(p) : p[i] = OsSep}))

\* The names joined by os.sep
RECURSIVE JoinAll(_)
JoinAll(names) ==
    IF names = <<>> THEN <<>>
    ELSE IF Len(names) = 1 THEN names[1]
    ELSE names[1] \o <<OsSep>> \o JoinAll(Tail(names))

\* The loop of os.path.normpath over the names of a path: "." is dropped,
\* ".." takes the name before it away, at the root it is dropped, at the
\* start of a relative path it stays
RECURSIVE Collapsed(_, _, _)
Collapsed(names, new_comps, rooted) ==
    IF names = <<>> THEN new_comps
    ELSE LET comp == Head(names)
             kept == IF comp = <<".">> THEN new_comps
                     ELSE IF \/ comp # <<".", ".">>
                             \/ (~rooted /\ new_comps = <<>>)
                             \/ (new_comps # <<>> /\ new_comps[Len(new_comps)] = <<".", ".">>)
                     THEN Append(new_comps, comp)
                     ELSE IF new_comps # <<>> THEN DropLast(new_comps, 1)
                     ELSE new_comps
         IN Collapsed(Tail(names), kept, rooted)

\* os.path.abspath for a path that is not empty: joined to the working
\* directory and normalised (two leading separators, and two only, stay)
Abspath(p) ==
    LET Normalized(joined) ==
            (IF StartsWith(joined, <<OsSep, OsSep>>)
                /\ ~StartsWith(joined, <<OsSep, OsSep, OsSep>>)
             THEN <<OsSep, OsSep>> ELSE <<OsSep>>)
            \o JoinAll(Collapsed(Components(joined), <<>>, TRUE))
    IN Normalized(Join(Cwd, p))

\* os.path.relpath(path, start)
Relpath(path, start) ==
    LET Joined(rel_list) == IF rel_list = <<>> THEN <<".">> ELSE JoinAll(rel_list)
        After(start_list, path_list, common) ==
            Joined([k \in 1..(Len(start_list) - common) |-> <<".", ".">>]
                   \o DropFirst(path_list, common))
        Apart(start_list, path_list, shorter) ==
            LET apart == {k \in 1..shorter : start_list[k] # path_list[k]}
            IN After(start_list, path_list,
                     IF apart = {} THEN shorter
                     ELSE (CHOOSE k \in apart : \A l \in apart : k <= l) - 1)
        Between(start_list, path_list) ==
            Apart(start_list, path_list,
                  IF Len(start_list) < Len(path_list) THEN Len(start_list)
                  ELSE Len(path_list))
    IN Between(Components(Abspath(start)), Components(Abspath(path)))

\* bpy.path.relpath: "//" and the path as seen from the .blend file's
\* directory; a path that starts with "//" is returned as it is
BlenderRelpath(p) ==
    IF StartsWith(p, <<"/", "/">>) THEN p ELSE <<"/", "/">> \o Relpath(p, BlendDir)

\* What a lookup yields where the path names nothing, and where a name on
\* the way is a file
NoEntry == <<>>
NotADirectory == <<"ENOTDIR">>

\* The directory above a directory (the root is above itself)
Parent(d) ==
    LET Above(head) == IF head = <<>> THEN <<OsSep>> ELSE head
    IN Above(Prefix(d, LastSep(d) - 1))

\* The entry of that name in a directory
Child(d, name) == IF d = <<OsSep>> THEN d \o name ELSE d \o <<OsSep>> \o name

\* The lookup of the names, one after the other, from the entry cur: the
\* file or directory reached, NoEntry, or NotADirectory
RECURSIVE Walk(_, _, _)
Walk(cur, names, fs) ==
    IF names = <<>> \/ cur = NoEntry \/ cur = NotADirectory THEN cur
    ELSE IF cur \notin Directories THEN NotADirectory
    ELSE LET Entry(name) == IF name = <<".">> THEN cur
                            ELSE IF name = <<".", ".">> THEN Parent(cur)
                            ELSE Child(cur, name)
             Into(next) == IF next \in Directories \/ next \in fs
                           THEN Walk(next, Tail(names), fs)
                           ELSE NoEntry
         IN Into(Entry(Head(names)))

\* The directory a lookup starts in: the root for a path with a leading
\* separator, the working directory otherwise
StartDir(p) == IF Head(p) = OsSep THEN <<OsSep>> ELSE Cwd

\* os.stat(p): the file or directory the path names on the disk fs; a path
\* that ends in a separator names a directory only
Stat(p, fs) ==
    IF p = <<>> THEN NoEntry
    ELSE LET Named(found) ==
                 IF p[Len(p)] = OsSep /\ found \in fs THEN NotADirectory ELSE found
         IN Named(Walk(StartDir(p), Components(p), fs))

\* os.path.isdir
IsDir(p, fs) == Stat(p, fs) \in Directories

\* os.path.exists: the path names an existing file or an existing directory
PathExists(p, fs) == Stat(p, fs) \notin {NoEntry, NotADirectory}

\* os.listdir(d) for an existing directory, as a set (the order is the
\* disk's): the names that follow the directory's path and a separator in the
\* paths of the disk's entries, where nothing but the name follows
ListDir(d, fs) ==
    LET Under(prefix) ==
            {DropFirst(q, Len(prefix)) :
                q \in {e \in (fs \cup Directories) \ {<<OsSep>>} :
                          /\ StartsWith(e, prefix)
                          /\ \A i \in (Len(prefix) + 1)..Len(e) : e[i] # OsSep}}
    IN Under(IF d = <<OsSep>> THEN d ELSE d \o <<OsSep>>)

\* What open(p, "wb") does: the exception it raises ("" for none) and the
\* file it creates or truncates
Opened(raised, file) == [raised |-> raised, file |-> file]

\* open(p, "wb")
OpenForWriting(p, fs) ==
    LET Within(dir, last) ==
            IF dir = NoEntry THEN Opened("FileNotFoundError", NoEntry)
            ELSE IF dir \notin Directories THEN Opened("NotADirectoryError", NoEntry)
            ELSE IF last \in {<<".">>, <<".", ".">>} \/ Child(dir, last) \in Directories
                 THEN Opened("IsADirectoryError", NoEntry)
            ELSE IF p[Len(p)] = OsSep THEN Opened("IsADirectoryError", NoEntry)
            ELSE Opened("", Child(dir, last))
        Named(names) ==
            IF names = <<>> THEN Opened("IsADirectoryError", NoEntry)
            ELSE Within(Walk(StartDir(p), DropLast(names, 1), fs), names[Len(names)])
    IN IF p = <<>> THEN Opened("FileNotFoundError", NoEntry)
       ELSE Named(Components(p))

\* What bpy.path.resolve_ncase found: the path and whether it exists
Ncase(path, found) == [path |-> path, found |-> found]

\* _ncase_path_found of bpy.path: the path itself when it is empty or
\* exists; otherwise its directory is resolved first and, when that is a
\* directory, each entry of the listing that equals the last name up to
\* letter case is a result (the listing's first such entry is taken, in the
\* order of the disk).  For a path that ends in a separator the name before
\* it is looked up and the leading characters of the path, as many as the
\* path is longer than its directory, are appended to the result
RECURSIVE NcasePathFound(_, _)
NcasePathFound(path, fs) ==
    IF path = <<>> \/ PathExists(path, fs) THEN {Ncase(path, TRUE)}
    ELSE LET Matching(d, same, suffix) ==
                 IF same = {} THEN {Ncase(path, FALSE)}
                 ELSE {Ncase(Join(d, f) \o suffix, TRUE) : f \in same}
             InDir(d, filename, suffix) ==
                 Matching(d, {f \in ListDir(Stat(d, fs), fs) : Lower(f) = Lower(filename)},
                          suffix)
             InEach(dirs, filename, suffix) ==
                 UNION { IF d.found /\ IsDir(d.path, fs)
                         THEN InDir(d.path, filename, suffix)
                         ELSE {Ncase(path, FALSE)} : d \in dirs }
             Dirs(dirpath) ==
                 IF PathExists(dirpath, fs) THEN {Ncase(dirpath, TRUE)}
                 ELSE IF dirpath = path THEN {Ncase(path, FALSE)}
                 ELSE NcasePathFound(dirpath, fs)
             SplitAs(dir, name, trailing) ==
                 InEach(Dirs(IF trailing THEN Dirname(dir) ELSE dir),
                        IF trailing THEN Basename(dir) ELSE name,
                        IF trailing /\ Len(dir) < Len(path)
                        THEN Prefix(path, Len(path) - Len(dir))
                        ELSE <<>>)
             Split(dir, name) == SplitAs(dir, name, name = <<>>)
         IN Split(Dirname(path), Basename(path))

\* bpy.path.resolve_ncase: the paths it can return
ResolveNcase(p, fs) ==
    {IF r.found THEN r.path ELSE p : r \in NcasePathFound(p, fs)}

\* bpy.data.images.load succeeds: the path, read the way Blender reads it
\* ("//" from the .blend file's directory), names a file, and Blender loads
\* that file (bad holds the files it does not)
CanLoad(tex_path, fs, bad) == Stat(BlenderAbspath(tex_path), fs) \in fs \ bad

\* name in bpy.data.images
HasImage(imgs, name) == \E im \in imgs : im.name = name

\* bpy.data.images[name]
ImageNamed(imgs, name) == CHOOSE im \in imgs : im.name = name

\* TextureLoader.load_image: the image returned, bpy.data.images afterwards,
\* and whether the "not found" warning was logged
LoadImage(tex_path, imgs, fs, bad) ==
    LET Image(name, generated, size) ==
            [name |-> name, filepath |-> tex_path, generated |-> generated,
             width |-> size, height |-> size]
        Added(image, warned) ==
            [image |-> image, images |-> imgs \cup {image}, warned |-> warned]
        Named(name) ==
            IF ~HasImage(imgs, name)
            THEN IF CanLoad(tex_path, fs, bad)
                 THEN Added(Image(name, FALSE, 4), FALSE)
                 ELSE Added(Image(name, TRUE, 1), TRUE)
            ELSE [image |-> ImageNamed(imgs, name), images |-> imgs, warned |-> FALSE]
    IN Named(Basename(tex_path))

\* fn of import_external_source: the stored name with both separators
\* replaced by os.sep
NormalizedName(source) == Replace(Replace(source.file_name, "\\", OsSep), "/", OsSep)

\* import_path
ImportPath(fp) == Dirname(fp)

\* search_path_list
SearchPathList(fp, texdir) ==
    LET Guessed(import_path, index, name) ==
            IF index # -1 THEN <<Prefix(import_path, index) \o name>> ELSE <<>>
        Listed(import_path, lowered) ==
            <<import_path>>
            \o (IF texdir # <<>> THEN <<texdir>> ELSE <<>>)
            \o <<Join(Cwd, <<"n", "i", "f">>)>>
            \o Guessed(import_path, Find(lowered, <<"m", "e", "s", "h", "e", "s">>),
                       <<"t", "e", "x", "t", "u", "r", "e", "s">>)
            \o Guessed(import_path, Find(lowered, <<"a", "r", "t">>),
                       <<"s", "h", "a", "r", "e", "d">>)
        From(import_path) == Listed(import_path, Lower(import_path))
    IN From(ImportPath(fp))

\* The alternate extensions tried
Extensions ==
    { <<".", "D", "D", "S">>, <<".", "d", "d", "s">>, <<".", "P", "N", "G">>,
      <<".", "p", "n", "g">>, <<".", "T", "G", "A">>, <<".", "t", "g", "a">>,
      <<".", "B", "M", "P">>, <<".", "b", "m", "p">>, <<".", "J", "P", "G">>,
      <<".", "j", "p", "g">> }

\* set(texfns): the alternate-extension names, in no particular order
AlternateNames(fn) ==
    UNION { { DropLast(fn, 4) \o ext, Lower(DropLast(fn, 4)) \o ext } : ext \in Extensions }

\* relative: the search directory is a Blender "//" directory
IsRelative(texdir) == Prefix(texdir, 2) = <<"/", "/">>

\* texdir as used inside the loop: "//" stripped, separators replaced
LoopDir(texdir) ==
    LET d == IF IsRelative(texdir) THEN DropFirst(texdir, 2) ELSE texdir
    IN Replace(Replace(d, "\\", OsSep), "/", OsSep)

\* tex before resolve_ncase: the joined path, with one of two "textures"
\* stripped, made absolute for a "//" directory
CandidatePath(texdir, texfn) ==
    LET Absolute(tex) ==
            IF IsRelative(texdir) THEN BlenderAbspath(<<"/", "/">> \o tex) ELSE tex
        Joined(d) ==
            Absolute(IF /\ Lower(Prefix(texfn, 9)) = <<"t", "e", "x", "t", "u", "r", "e", "s", OsSep>>
                        /\ Lower(Suffix(d, 9)) = <<OsSep, "t", "e", "x", "t", "u", "r", "e", "s">>
                     THEN Join(DropLast(d, 9), texfn)
                     ELSE Join(d, texfn))
    IN Joined(LoopDir(texdir))

\* The existing paths one candidate name can resolve to in one directory
Resolved(texdir, texfn, fs) ==
    {q \in ResolveNcase(CandidatePath(texdir, texfn), fs) : PathExists(q, fs)}

\* (variant: the alternate names tried before the stored name)
FoundInDirAlternatesFirst(texdir, fn, fs) ==
    LET Out(qs) == {IF IsRelative(texdir) THEN BlenderRelpath(q) ELSE q : q \in qs}
        With(names) == UNION {Resolved(texdir, a, fs) : a \in names}
        OrLowered(stored) == IF stored # {} THEN stored ELSE With({Lower(fn)})
        OrStored(alts) == IF alts # {} THEN alts ELSE OrLowered(With({fn}))
    IN Out(OrStored(With(AlternateNames(fn) \ {fn, Lower(fn)})))

\* The paths the inner loop can hand to load_image for one directory: the
\* stored name first, then its lower-cased form, then the alternate names in
\* the order the set yields them; empty when the directory has none of them
FoundInDir(texdir, fn, fs) ==
    LET Out(qs) == {IF IsRelative(texdir) THEN BlenderRelpath(q) ELSE q : q \in qs}
        With(names) == UNION {Resolved(texdir, a, fs) : a \in names}
        OrAlternates(lowered) == IF lowered # {} THEN lowered ELSE With(AlternateNames(fn))
        OrLowered(stored) == IF stored # {} THEN stored ELSE OrAlternates(With({Lower(fn)}))
    IN Out(OrLowered(With({fn})))

\* The paths the search can hand to load_image: found in the first directory
\* of the list that has a candidate, or fn itself after the last directory
RECURSIVE SearchFrom(_, _, _, _)
SearchFrom(i, dirs, fn, fs) ==
    IF i > Len(dirs) THEN {fn}
    ELSE LET OrNext(found) == IF found # {} THEN found ELSE SearchFrom(i + 1, dirs, fn, fs)
         IN OrNext(FoundInDir(dirs[i], fn, fs))

\* The upper limit of the numbered names generate_image_name tries
ImageNameLimit == 10000

\* One decimal digit as a character
Digit(d) == <<"0", "1", "2", "3", "4", "5", "6", "7", "8", "9">>[d + 1]

\* f"image{n:0>4d}.dds"
NumberedName(n) ==
    <<"i", "m", "a", "g", "e">>
    \o <<Digit((n \div 1000) % 10), Digit((n \div 100) % 10),
         Digit((n \div 10) % 10), Digit(n % 10)>>
    \o <<".", "d", "d", "s">>

\* The n at which the while loop of generate_image_name breaks: the first n
\* of lo..hi whose numbered name does not exist, -1 when every name of the
\* range exists (the range is halved so that the limit stays within reach)
RECURSIVE FirstFreeNumber(_, _, _, _)
FirstFreeNumber(lo, hi, dir, fs) ==
    IF lo = hi
    THEN IF ~PathExists(Join(dir, NumberedName(lo)), fs) THEN lo ELSE 0 - 1
    ELSE LET OrRight(left, mid) ==
                 IF left # 0 - 1 THEN left ELSE FirstFreeNumber(mid + 1, hi, dir, fs)
             Halved(mid) == OrRight(FirstFreeNumber(lo, mid, dir, fs), mid)
         IN Halved((lo + hi) \div 2)

\* TextureLoader.generate_image_name: tex of the iteration that broke out of
\* the loop, or of the last iteration when the loop ran to its limit
GenerateImageName(fp, fs) ==
    LET Numbered(dir, n) ==
            Join(dir, NumberedName(IF n = 0 - 1 THEN ImageNameLimit - 1 ELSE n))
        Within(dir) == Numbered(dir, FirstFreeNumber(0, ImageNameLimit - 1, dir, fs))
    IN Within(Dirname(fp))

\* tex_path of import_embedded_texture_source
EmbeddedTexPath(source, fp, fs) ==
    IF source.file_name = <<>>
    THEN GenerateImageName(fp, fs)
    ELSE Join(Dirname(fp), source.file_name)

\* "tex_path not in self.external_textures"
NeedsExtraction(tex_path, extracted, fs) == tex_path \notin extracted

\* source.pixel_data.save_as_dds(stream): the exception it ends with, "" when
\* the payload was written; a source without pixel_data has None there
SaveAsDds(source) ==
    CASE source.pixel_data = "dds" -> ""
      [] source.pixel_data = "unsupported" -> "ValueError"
      [] OTHER -> "AttributeError"

NoSource == Source("none", <<>>, "none")

NoCall == [op |-> "none", source |-> NoSource, tex |-> <<>>, image |-> NoImage,
           raised |-> "", warned |-> FALSE, wrote |-> FALSE, n |-> 0]

\* TextureLoader.import_external_source(source): what it does to the loader,
\* the images and the disk
ImportExternalSourceEffect(source) ==
    /\ lcall.n < MaxCalls
    /\ LET Loaded(tex, r) ==
               /\ images' = r.images
               /\ lcall' = [op |-> "external", source |-> source, tex |-> tex,
                            image |-> r.image, raised |-> "", warned |-> r.warned,
                            wrote |-> FALSE, n |-> lcall.n + 1]
       IN IF source.kind \notin {"NiSourceTexture", "str"}
          THEN \* "source must be NiSourceTexture or str"
               /\ lcall' = [op |-> "external", source |-> source, tex |-> <<>>,
                            image |-> NoImage, raised |-> "TypeError", warned |-> FALSE,
                            wrote |-> FALSE, n |-> lcall.n + 1]
               /\ UNCHANGED images
          ELSE \E tex \in SearchFrom(1, SearchPathList(filepath, texture_directory),
                                     NormalizedName(source), files) :
                 Loaded(tex, LoadImage(tex, images, files, corrupt))
    /\ UNCHANGED <<filepath, texture_directory, files, corrupt,
                   external_textures, writes>>

\* TextureLoader.import_external_source(source)
ImportExternalSource(source) ==
    /\ ImportExternalSourceEffect(source)
    /\ UNCHANGED <<animVars, otherVars>>

\* (variant: the path is recorded only when the payload was written)
ExtractedAfterOnSuccess(tex_path, extracted, saved) ==
    IF saved = "" THEN extracted \cup {tex_path} ELSE extracted

\* self.external_textures after the with-statement: the path is added when
\* save_as_dds returned and when its ValueError was caught; any other
\* exception leaves the method before the add
ExtractedAfter(tex_path, extracted, saved) ==
    IF saved \in {"", "ValueError"} THEN extracted \cup {tex_path} ELSE extracted

\* The files Blender does not load once file was written: a file holding the
\* payload loads; what Blender makes of a file left empty or incomplete is
\* Blender's to decide, so either outcome is possible
BadAfter(file, bad, saved) ==
    IF saved = "" THEN {bad \ {file}} ELSE {bad \ {file}, bad \cup {file}}

\* TextureLoader.import_embedded_texture_source(source): what it does to the
\* loader, the images and the disk
ImportEmbeddedTextureSourceEffect(source) ==
    /\ lcall.n < MaxCalls
    /\ LET Call(tex_path) ==
               [op |-> "embedded", source |-> source, tex |-> tex_path,
                image |-> NoImage, raised |-> "", warned |-> FALSE,
                wrote |-> FALSE, n |-> lcall.n + 1]
           Loaded(tex_path, r) ==
               /\ images' = r.images
               /\ lcall' = [Call(tex_path) EXCEPT !.image = r.image, !.warned = r.warned]
               /\ UNCHANGED <<files, corrupt, external_textures, writes>>
           Saved(tex_path, stream, saved) ==
               IF stream.raised # ""
               THEN \* open raises: nothing was written or recorded
                    /\ lcall' = [Call(tex_path) EXCEPT !.raised = stream.raised]
                    /\ UNCHANGED <<files, corrupt, images, external_textures, writes>>
               ELSE \E bad \in BadAfter(stream.file, corrupt, saved) :
                      /\ files' = files \cup {stream.file}
                      /\ corrupt' = bad
                      /\ writes' = Append(writes, tex_path)
                      /\ external_textures' = ExtractedAfter(tex_path, external_textures, saved)
                      /\ IF saved \notin {"", "ValueError"}
                         THEN \* the exception leaves the method: no image is loaded
                              /\ lcall' = [Call(tex_path) EXCEPT !.raised = saved,
                                                                 !.wrote = TRUE]
                              /\ UNCHANGED images
                         ELSE LET r == LoadImage(tex_path, images,
                                                 files \cup {stream.file}, bad)
                              IN /\ images' = r.images
                                 /\ lcall' = [Call(tex_path) EXCEPT
                                                 !.image = r.image,
                                                 !.warned = r.warned \/ saved = "ValueError",
                                                 !.wrote = TRUE]
           Import(tex_path) ==
               IF ~NeedsExtraction(tex_path, external_textures, files)
               THEN Loaded(tex_path, LoadImage(tex_path, images, files, corrupt))
               ELSE Saved(tex_path, OpenForWriting(tex_path, files), SaveAsDds(source))
       IN Import(EmbeddedTexPath(source, filepath, files))
    /\ UNCHANGED <<filepath, texture_directory>>

\* TextureLoader.import_embedded_texture_source(source)
ImportEmbeddedTextureSource(source) ==
    /\ ImportEmbeddedTextureSourceEffect(source)
    /\ UNCHANGED <<animVars, otherVars>>

\* "if not source": None, an empty path string, or the int 0
Unlinked(source) ==
    \/ source.kind = "none"
    \/ source.kind = "str" /\ source.file_name = <<>>
    \/ source.kind = "int" /\ source.file_name = <<"0">>

\* TextureLoader.import_texture_source(source): None for an unlinked source,
\* the embedded path for a NiSourceTexture that is not external when embedded
\* textures are wanted, the external path otherwise
ImportTextureSourceEffect(source, use_external, use_embedded_texture) ==
    IF Unlinked(source)
    THEN /\ lcall.n < MaxCalls
         /\ lcall' = [NoCall EXCEPT !.op = "unlinked", !.source = source,
                                    !.n = lcall.n + 1]
         /\ UNCHANGED <<filepath, texture_directory, files, corrupt, images,
                        external_textures, writes>>
    ELSE IF source.kind = "NiSourceTexture" /\ ~use_external /\ use_embedded_texture
    THEN ImportEmbeddedTextureSourceEffect(source)
    ELSE ImportExternalSourceEffect(source)

-----------------------------------------------------------------------------
(***************************************************************************)
(* Texture animation export: TextureAnimation                              *)
(***************************************************************************)

\* float division a / b as the reduced fraction <<numerator, denominator>>
RECURSIVE Gcd(_, _)
Gcd(a, b) == IF b = 0 THEN a ELSE Gcd(b, a % b)

Abs(a) == IF a < 0 THEN -a ELSE a

Fraction(a, b) ==
    LET g == Gcd(Abs(a), Abs(b))
        sign == IF b < 0 THEN -1 ELSE 1
    IN IF g = 0 THEN <<0, 1>> ELSE <<sign * (a \div g), sign * (b \div g)>>

\* self.operation_to_fcurve, in insertion order
OperationToFcurve ==
    << <<"TT_TRANSLATE_U", "shader_nodes[\"Mapping\"].translation[0]">>,
       <<"TT_TRANSLATE_V", "shader_nodes[\"Mapping\"].translation[1]">>,
       <<"TT_ROTATE", "shader_nodes[\"Mapping\"].rotation[2]">>,
       <<"TT_SCALE_U", "shader_nodes[\"Mapping\"].scale[0]">>,
       <<"TT_SCALE_V", "shader_nodes[\"Mapping\"].scale[1]">> >>

\* (variant: BEZIER keys exported as linear keys)
GetNifInterpolationBezierLinear(blender_interpolation) ==
    CASE blender_interpolation = "LINEAR" -> "LINEAR_KEY"
      [] blender_interpolation = "CONSTANT" -> "CONSTANT_KEY"
      [] OTHER -> "LINEAR_KEY"

\* TextureAnimation.get_nif_interpolation
GetNifInterpolation(blender_interpolation) ==
    CASE blender_interpolation = "LINEAR" -> "LINEAR_KEY"
      [] blender_interpolation = "CONSTANT" -> "CONSTANT_KEY"
      [] blender_interpolation = "BEZIER" -> "QUADRATIC_KEY"
      [] OTHER -> "LINEAR_KEY"

\* (variant: the frame multiplied by fps instead of divided)
KeyTimeMultiplied(frame, rate) == Fraction(frame * rate, 1)

\* time = keyframe.co[0] / self.fps
KeyTime(frame, rate) == Fraction(frame, rate)

\* The NiFloatKey of one keyframe point
NifKey(keyframe, rate) ==
    [time |-> KeyTime(keyframe.co[1], rate),
     value |-> keyframe.co[2],
     interpolation |-> GetNifInterpolation(keyframe.interpolation)]

\* TextureAnimation.export_fcurve_to_nif_keys: n_ni_float_data.keys afterwards
FcurveToNifKeys(fcurve, rate) ==
    [i \in 1..Len(fcurve.keyframe_points) |-> NifKey(fcurve.keyframe_points[i], rate)]

\* A block as block_store.create_block returns it, before its fields are set
NewBlock(type) ==
    [type |-> type, target |-> "", texture_slot |-> "", operation |-> "",
     start_time |-> <<0, 1>>, stop_time |-> <<0, 1>>, interpolator |-> 0,
     flags |-> 0, data |-> 0, keys |-> <<>>, has_keys |-> FALSE,
     sources |-> <<>>, num_sources |-> 0, frequency |-> 0, delta |-> <<0, 1>>,
     uv_groups |-> <<>>, timed_with |-> <<>>]

\* The fields of n_ni_controller_sequence.add_block before they are set
NoControlledBlock ==
    [controller |-> 0, node_name |-> "", property_type |-> "",
     controller_type |-> "", controller_id |-> <<>>]

\* The next_controller link of block k: neither export_texture_animations nor
\* export_ni_texture_transform_controller assigns it, a created controller
\* keeps the empty link
NextController(store, k) == 0

\* next((fcu for fcu in b_action.fcurves if fcu.data_path == path), None):
\* the index of the first matching F-curve, 0 for None
FirstFcurve(b_action, path) ==
    LET hits == {i \in 1..Len(b_action.fcurves) : b_action.fcurves[i].data_path = path}
    IN IF hits = {} THEN 0 ELSE CHOOSE i \in hits : \A j \in hits : i <= j

\* The loop over n_ni_geometry.properties found a NiTexturingProperty
HasTexturingProperty(n_properties) ==
    \E i \in 1..Len(n_properties) : n_properties[i] = "NiTexturingProperty"

\* The path of an operation in self.operation_to_fcurve
FcurvePath(operation) ==
    OperationToFcurve[CHOOSE k \in 1..Len(OperationToFcurve) :
                          OperationToFcurve[k][1] = operation][2]

\* TextureAnimation.export_ni_texture_transform_controller: the export state
\* st with the controller, its interpolator and its data block created
ExportNiTextureTransformController(st, obj, b_action, use_sequence, operation) ==
    LET k == Len(st.store) + 1
        f == FirstFcurve(b_action, FcurvePath(operation))
        controller ==
            [NewBlock("NiTextureTransformController") EXCEPT
                !.target = obj,
                !.texture_slot = "BASE_MAP",
                !.operation = operation,
                !.start_time = Fraction(b_action.frame_start, st.fps),
                !.stop_time = Fraction(b_action.frame_end, st.fps),
                !.interpolator = k + 1]
        interpolator ==
            IF use_sequence
            THEN [NewBlock("NiBlendFloatInterpolator") EXCEPT !.flags = 1, !.data = k + 2]
            ELSE [NewBlock("NiFloatInterpolator") EXCEPT !.data = k + 2]
        float_data ==
            IF f # 0
            THEN [NewBlock("NiFloatData") EXCEPT
                    !.keys = FcurveToNifKeys(b_action.fcurves[f], st.fps),
                    !.has_keys = TRUE]
            ELSE NewBlock("NiFloatData")
    IN [st EXCEPT !.store = st.store \o <<controller, interpolator, float_data>>,
                  !.ctrl = [st.ctrl EXCEPT ![obj] = k]]

\* The body of the loop over self.operation_to_fcurve for one operation
ExportOperation(st, obj, b_action, use_sequence, k) ==
    LET operation == OperationToFcurve[k][1]
        fcurve_path == OperationToFcurve[k][2]
    IN IF FirstFcurve(b_action, fcurve_path) = 0
       THEN st
       ELSE LET made == ExportNiTextureTransformController(st, obj, b_action,
                                                           use_sequence, operation)
            IN IF use_sequence
               THEN [made EXCEPT !.seq =
                        [controller |-> Len(st.store) + 1,
                         node_name |-> obj,
                         property_type |-> "NiTexturingProperty",
                         controller_type |-> "NiTextureTransformController",
                         controller_id |-> <<"0-0-", operation>>]]
               ELSE made

\* The loop over self.operation_to_fcurve, from entry k on
RECURSIVE ExportOperationsFrom(_, _, _, _, _)
ExportOperationsFrom(k, st, obj, b_action, use_sequence) ==
    IF k > Len(OperationToFcurve) THEN st
    ELSE ExportOperationsFrom(k + 1, ExportOperation(st, obj, b_action, use_sequence, k),
                              obj, b_action, use_sequence)

\* The objects of the scene whose active_material is a material (None for
\* the others)
ObjectsWithMaterial == {"Cube", "Plane", "Curve"}

\* The body of the loop over b_controlled_blocks for one (strip, object)
\* pair: node_tree is read off the active material before anything is
\* tested, and the geometry is looked up in DICT_NAMES (the keys of
\* properties) by the object's name
ExportControlledBlock(st, b_controlled_block) ==
    LET b_action == b_controlled_block.action
        obj == b_controlled_block.obj
    IN IF obj \notin ObjectsWithMaterial THEN [st EXCEPT !.raised = "AttributeError"]
       ELSE IF b_action.id_root # "NODE_TREE" THEN st
       ELSE IF obj \notin DOMAIN st.properties THEN [st EXCEPT !.raised = "KeyError"]
       ELSE IF ~HasTexturingProperty(st.properties[obj])
       THEN [st EXCEPT !.warnings = st.warnings + 1]
       ELSE ExportOperationsFrom(1, st, obj, b_action, st.use_sequence)

\* The loop over b_controlled_blocks, from element i on, left when the body
\* raises
RECURSIVE ExportControlledBlocksFrom(_, _, _)
ExportControlledBlocksFrom(i, st, b_controlled_blocks) ==
    IF i > Len(b_controlled_blocks) \/ st.raised # "" THEN st
    ELSE ExportControlledBlocksFrom(i + 1, ExportControlledBlock(st, b_controlled_blocks[i]),
                                    b_controlled_blocks)

\* ---- the scene that is exported ----

\* The objects whose geometry was exported (the keys of DICT_NAMES): two
\* meshes with a material, one mesh without
Objects == {"Cube", "Plane", "Bare"}

\* The objects NLA strips belong to: the exported meshes and a curve, which
\* has a material and no exported geometry
AnimatedObjects == Objects \cup {"Curve"}

\* Values of AnimationCommon.fps
FpsValues == {24, 30}

PathTranslateU == "shader_nodes[\"Mapping\"].translation[0]"
PathTranslateV == "shader_nodes[\"Mapping\"].translation[1]"
PathRotate == "shader_nodes[\"Mapping\"].rotation[2]"
PathScaleU == "shader_nodes[\"Mapping\"].scale[0]"
PathScaleV == "shader_nodes[\"Mapping\"].scale[1]"
PathOther == "shader_nodes[\"Mapping\"].translation[2]"

Keyframe(frame, value, interpolation) ==
    [co |-> <<frame, value>>, interpolation |-> interpolation]

KeysA == <<Keyframe(0, 0, "LINEAR"), Keyframe(12, -3, "BEZIER")>>
KeysB == <<Keyframe(30, 7, "CONSTANT")>>

Fcurve(path, points) == [data_path |-> path, keyframe_points |-> points]

\* The actions of the NLA strips: one animated operation; two operations, an
\* unrelated curve and a second curve on one path; all five operations; no
\* operation; an action that does not animate a node tree
Actions ==
    { [name |-> "OneOp", id_root |-> "NODE_TREE", frame_start |-> 0, frame_end |-> 12,
       fcurves |-> <<Fcurve(PathScaleU, KeysA)>>],
      [name |-> "TwoOps", id_root |-> "NODE_TREE", frame_start |-> 1, frame_end |-> 30,
       fcurves |-> <<Fcurve(PathTranslateV, KeysB), Fcurve(PathOther, KeysA),
                     Fcurve(PathRotate, KeysA), Fcurve(PathTranslateV, KeysA)>>],
      [name |-> "AllOps", id_root |-> "NODE_TREE", frame_start |-> 0, frame_end |-> 30,
       fcurves |-> <<Fcurve(PathScaleV, KeysA), Fcurve(PathScaleU, KeysB),
                     Fcurve(PathRotate, KeysA), Fcurve(PathTranslateV, KeysB),
                     Fcurve(PathTranslateU, KeysA)>>],
      [name |-> "NoOp", id_root |-> "NODE_TREE", frame_start |-> 0, frame_end |-> 12,
       fcurves |-> <<Fcurve(PathOther, KeysA)>>],
      [name |-> "ObjectAction", id_root |-> "OBJECT", frame_start |-> 0, frame_end |-> 12,
       fcurves |-> <<Fcurve(PathTranslateU, KeysA)>>] }

\* The (strip, object) pairs
ControlledBlocks == {[action |-> a, obj |-> o] : a \in Actions, o \in AnimatedObjects}

\* Length of b_controlled_blocks
MaxBlocks == 2

\* Sequences over S of length at most n
SeqsUpTo(S, n) == UNION {[1..m -> S] : m \in 0..n}

\* Lines of the flip-book text
FlipLines == {"", "a.dds", "b.dds"}

\* Length of the flip-book text
MaxLines == 3

\* bpy.context.scene.frame_start and frame_end
SceneFrames == {<<1, 25>>}

\* Keyframe points of the F-curves handed to export_fcurve_to_nif_keys
InterpolationModes ==
    {"CONSTANT", "LINEAR", "BEZIER", "SINE", "QUAD", "CUBIC", "QUART", "QUINT",
     "EXPO", "CIRC", "BACK", "BOUNCE", "ELASTIC"}

KeyframePoints ==
    {Keyframe(c[1], c[2], m) : c \in {<<0, 0>>, <<30, -7>>},
                               m \in InterpolationModes}

\* Number of keyframe points of an F-curve
MaxKeys == 2

NoFcurve == Fcurve("", <<>>)

\* An action without F-curves
NoAction ==
    [name |-> "", id_root |-> "", frame_start |-> 0, frame_end |-> 0, fcurves |-> <<>>]

NoAnimCall ==
    [op |-> "none", blocks |-> <<>>, use_sequence |-> FALSE, fcurve |-> NoFcurve,
     keys |-> <<>>, lines |-> <<>>, action |-> NoAction, raised |-> "", base |-> 0,
     base_warnings |-> 0, n |-> 0]

\* TextureAnimation.export_texture_animations(b_controlled_blocks, sequence)
ExportTextureAnimations(b_controlled_blocks, use_sequence) ==
    /\ acall.op = "none"
    /\ LET st == ExportControlledBlocksFrom(1,
                    [store |-> block_store, ctrl |-> texprop_controller,
                     seq |-> seq_block, warnings |-> warnings,
                     properties |-> properties, fps |-> fps,
                     use_sequence |-> use_sequence, raised |-> ""],
                    b_controlled_blocks)
       IN /\ block_store' = st.store
          /\ texprop_controller' = st.ctrl
          /\ seq_block' = st.seq
          /\ warnings' = st.warnings
          /\ acall' = [NoAnimCall EXCEPT !.op = "export_texture_animations",
                                         !.blocks = b_controlled_blocks,
                                         !.use_sequence = use_sequence,
                                         !.raised = st.raised,
                                         !.base = Len(block_store),
                                         !.base_warnings = warnings,
                                         !.n = acall.n + 1]
    /\ UNCHANGED <<properties, fps, target_controllers>>
    /\ UNCHANGED geometry_controllers
    /\ UNCHANGED <<loaderVars, otherVars>>

\* TextureAnimation.export_fcurve_to_nif_keys(fcurve, n_ni_float_data); the
\* keys of n_ni_float_data are kept in acall.keys
ExportFcurveToNifKeys(fcurve) ==
    /\ acall.op = "none"
    /\ acall' = [NoAnimCall EXCEPT !.op = "export_fcurve_to_nif_keys",
                                   !.fcurve = fcurve,
                                   !.keys = FcurveToNifKeys(fcurve, fps),
                                   !.n = acall.n + 1]
    /\ UNCHANGED <<properties, fps, block_store, texprop_controller, seq_block,
                   target_controllers, warnings>>
    /\ UNCHANGED geometry_controllers
    /\ UNCHANGED <<loaderVars, otherVars>>

\* (variant: the controller is not attached to the target)
AddControllerForgotten(controllers, k) == controllers

\* target.add_controller(n_flip)
AddController(controllers, k) == Append(controllers, k)

\* The non-empty lines of the flip-book text, in order
RECURSIVE NonEmptyLines(_)
NonEmptyLines(tlist) ==
    IF tlist = <<>> THEN <<>>
    ELSE IF Head(tlist) = "" THEN NonEmptyLines(Tail(tlist))
    ELSE <<Head(tlist)>> \o NonEmptyLines(Tail(tlist))

\* TextureAnimation.export_ni_flip_controller(fliptxt, texture, target, target_tex)
\* with the scene's frame range; "raise NifLog.warn(...)" logs the warning
\* and then raises TypeError, because NifLog.warn returns None
ExportNiFlipController(tlist, target_tex, frames) ==
    /\ acall.op = "none"
    /\ LET k == Len(block_store) + 1
           start == frames[1]
           start_time == (start - 1) * fps
           stop_time == (frames[2] - start) * fps
           sources == NonEmptyLines(tlist)
           count == Len(sources)
           n_flip == [NewBlock("NiFlipController") EXCEPT
                        !.flags = 8,
                        !.frequency = 1,
                        !.start_time = Fraction(start_time, 1),
                        !.stop_time = Fraction(stop_time, 1),
                        !.texture_slot = target_tex,
                        !.num_sources = count,
                        !.sources = sources,
                        !.delta = IF count < 2 THEN <<0, 1>>
                                  ELSE Fraction(stop_time - start_time, count)]
       IN /\ block_store' = Append(block_store, n_flip)
          /\ target_controllers' = AddController(target_controllers, k)
          /\ warnings' = IF count < 2 THEN warnings + 1 ELSE warnings
          /\ acall' = [NoAnimCall EXCEPT !.op = "export_ni_flip_controller",
                                         !.lines = tlist,
                                         !.raised = IF count < 2 THEN "TypeError" ELSE "",
                                         !.base = Len(block_store),
                                         !.base_warnings = warnings,
                                         !.n = acall.n + 1]
    /\ UNCHANGED <<properties, fps, texprop_controller, seq_block>>
    /\ UNCHANGED geometry_controllers
    /\ UNCHANGED <<loaderVars, otherVars>>

\* ---- export_ni_uv_controller ----

\* An F-curve with the index of the array element it animates
UvFcurve(path, index, points) ==
    [data_path |-> path, array_index |-> index, keyframe_points |-> points]

DataPathOffset == <<"o", "f", "f", "s", "e", "t">>
DataPathScale == <<"s", "c", "a", "l", "e">>

\* "for dp, ind in (("offset", 0), ("offset", 1), ("scale", 0), ("scale", 1))"
UvCurveKeys ==
    << <<DataPathOffset, 0>>, <<DataPathOffset, 1>>,
       <<DataPathScale, 0>>, <<DataPathScale, 1>> >>

\* The inner loop over b_action.fcurves: the index of the first F-curve with
\* "dp in fcu.data_path and fcu.array_index == ind", 0 for the None of the
\* else branch
FirstUvFcurve(b_action, dp, ind) ==
    LET hits == {i \in 1..Len(b_action.fcurves) :
                    /\ Find(b_action.fcurves[i].data_path, dp) # -1
                    /\ b_action.fcurves[i].array_index = ind}
    IN IF hits = {} THEN 0 ELSE CHOOSE i \in hits : \A j \in hits : i <= j

\* b_f_curves: the four F-curves, 0 where none matches
BFCurves(b_action) ==
    [g \in 1..Len(UvCurveKeys) |->
        FirstUvFcurve(b_action, UvCurveKeys[g][1], UvCurveKeys[g][2])]

\* A UV group of a fresh NiUVData
NoUvGroup == [num_keys |-> 0, interpolation |-> "", keys |-> <<>>]

\* The keys written for one F-curve: offsets are negated, time is frame / fps
UvKeys(fcu, fps_value) ==
    [j \in 1..Len(fcu.keyframe_points) |->
        LET b_frame == fcu.keyframe_points[j].co[1]
            b_value == fcu.keyframe_points[j].co[2]
        IN [arg |-> "LINEAR_KEY",
            time |-> Fraction(b_frame, fps_value),
            value |-> IF Find(fcu.data_path, DataPathOffset) # -1
                      THEN -b_value ELSE b_value]]

\* The loop "for fcu, n_uv_group in zip(b_f_curves, n_uv_data.uv_groups)"
UvGroups(b_action, fps_value) ==
    LET b_f_curves == BFCurves(b_action)
    IN [g \in 1..Len(UvCurveKeys) |->
          IF b_f_curves[g] = 0 THEN NoUvGroup
          ELSE LET fcu == b_action.fcurves[b_f_curves[g]]
               IN [num_keys |-> Len(fcu.keyframe_points),
                   interpolation |-> "LINEAR_KEY",
                   keys |-> UvKeys(fcu, fps_value)]]

\* AnimationCommon.set_flags_and_timing(kfc, exp_fcurves), which is outside
\* these sources: it writes the flags, frequency, phase, start_time and
\* stop_time of the controller from the F-curves it is given; the controller
\* keeps that list in place of the five values
SetFlagsAndTiming(kfc, exp_fcurves) == [kfc EXCEPT !.timed_with = exp_fcurves]

\* TextureAnimation.export_ni_uv_controller(n_ni_geometry, b_action);
\* "b_f_curves[0].keyframe_points" raises AttributeError when b_f_curves[0]
\* is None. NiUVData and NiUVController are built with their constructors:
\* the block store stays as it is, the controller carries its data
ExportNiUvController(b_action) ==
    /\ acall.op = "none"
    /\ LET b_f_curves == BFCurves(b_action)
           any == \E g \in 1..Len(UvCurveKeys) : b_f_curves[g] # 0
           raises == any /\ b_f_curves[1] = 0
           attached == /\ any
                       /\ ~raises
                       /\ b_action.fcurves[b_f_curves[1]].keyframe_points # <<>>
           n_uv_data == [NewBlock("NiUVData") EXCEPT !.uv_groups = UvGroups(b_action, fps)]
           n_ni_uv_controller ==
               [SetFlagsAndTiming(NewBlock("NiUVController"), b_f_curves)
                   EXCEPT !.data = n_uv_data]
       IN /\ geometry_controllers' =
                IF attached THEN AddController(geometry_controllers, n_ni_uv_controller)
                ELSE geometry_controllers
          /\ acall' = [NoAnimCall EXCEPT !.op = "export_ni_uv_controller",
                                         !.action = b_action,
                                         !.raised = IF raises THEN "AttributeError" ELSE "",
                                         !.base = Len(block_store),
                                         !.base_warnings = warnings,
                                         !.n = acall.n + 1]
    /\ UNCHANGED <<properties, fps, block_store, texprop_controller, seq_block,
                   target_controllers, warnings>>
    /\ UNCHANGED <<loaderVars, otherVars>>

-----------------------------------------------------------------------------
(***************************************************************************)
(* Specifications                                                          *)
(***************************************************************************)

-----------------------------------------------------------------------------
(***************************************************************************)
(* Object property export: nif_export/property/object.py                   *)
(***************************************************************************)

\* None, for a keyword argument and for a function without a return value
NoneValue == 0 - 1

\* Games of bpy.context.scene.niftools_scene.game
GameSkyrim == <<"S", "K", "Y", "R", "I", "M">>
GameFallout3 == <<"F", "A", "L", "L", "O", "U", "T", "_", "3">>
GameOblivion == <<"O", "B", "L", "I", "V", "I", "O", "N">>
GameCivilization4 == <<"C", "I", "V", "I", "L", "I", "Z", "A", "T", "I", "O", "N", "_", "I", "V">>
GameRailroads == <<"S", "I", "D", "_", "M", "E", "I", "E", "R", "_", "S", "_", "R", "A", "I", "L", "R", "O", "A", "D", "S">>
GameEmpireEarth2 == <<"E", "M", "P", "I", "R", "E", "_", "E", "A", "R", "T", "H", "_", "I", "I">>
GameZooTycoon2 == <<"Z", "O", "O", "_", "T", "Y", "C", "O", "O", "N", "_", "2">>
Games == {GameSkyrim, GameFallout3, GameOblivion, GameCivilization4}

\* niftools_scene.is_skyrim()
IsSkyrim(g) == g = GameSkyrim

\* niftools_scene.is_fo3()
IsFo3(g) == g = GameFallout3

\* "FALLOUT" not in niftools_scene.game
NotFallout(g) == Find(g, <<"F", "A", "L", "L", "O", "U", "T">>) = 0 - 1

\* The keys of NiTexturingProperty.USED_EXTRA_SHADER_TEXTURES
UsedExtraShaderTextures == {GameRailroads, GameCivilization4}

\* The attributes ObjectProperty.__init__ sets on the instance
ObjectPropertyAttributes == {"material_property_helper", "texture_property_helper"}

\* Block type names
TypeStencil == <<"N", "i", "S", "t", "e", "n", "c", "i", "l", "P", "r", "o", "p", "e", "r", "t", "y">>
TypeSpecular == <<"N", "i", "S", "p", "e", "c", "u", "l", "a", "r", "P", "r", "o", "p", "e", "r", "t", "y">>
TypeWireframe == <<"N", "i", "W", "i", "r", "e", "f", "r", "a", "m", "e", "P", "r", "o", "p", "e", "r", "t", "y">>
TypeTriShape == <<"N", "i", "T", "r", "i", "S", "h", "a", "p", "e">>
TypeTriShapeData == <<"N", "i", "T", "r", "i", "S", "h", "a", "p", "e", "D", "a", "t", "a">>
TypeVertexColorProperty == <<"N", "i", "V", "e", "r", "t", "e", "x", "C", "o", "l", "o", "r", "P", "r", "o", "p", "e", "r", "t", "y">>
TypeZBuffer == <<"N", "i", "Z", "B", "u", "f", "f", "e", "r", "P", "r", "o", "p", "e", "r", "t", "y">>
TypeStringExtraData == <<"N", "i", "S", "t", "r", "i", "n", "g", "E", "x", "t", "r", "a", "D", "a", "t", "a">>
TypeInvMarker == <<"B", "S", "I", "n", "v", "M", "a", "r", "k", "e", "r">>
TypeMaterial == <<"N", "i", "M", "a", "t", "e", "r", "i", "a", "l", "P", "r", "o", "p", "e", "r", "t", "y">>

\* The parameters get_matching_block is called with
Params == {"flags", "function", "vertex_mode", "lighting_mode"}

\* The value of a field of a block no caller has set
DefaultField == 0

\* block_store.create_block(block_type), before any attribute is set
CreateBlock(block_type) ==
    [type |-> block_type, flags |-> DefaultField, function |-> DefaultField,
     vertex_mode |-> DefaultField, lighting_mode |-> DefaultField]

\* str(type(block))
TypeString(block) == <<"<", "c", "l", "a", "s", "s", " ", "'">> \o block.type \o <<"'", ">">>

\* block_type in str(type(block))
TypeMatches(block_type, block) == Find(TypeString(block), block_type) # 0 - 1

\* The for-else over kwargs.items(): no attribute that is not None differs
\* from getattr(block, param, None)
KwargsMatch(block, kwargs) ==
    \A param \in Params : kwargs[param] # NoneValue => block[param] = kwargs[param]

\* The index of the block the loop over block_store.block_to_obj returns,
\* 0 when the loop ends without returning
FirstMatching(registry, block_type, kwargs) ==
    LET hits == {i \in 1..Len(registry) :
                    /\ TypeMatches(block_type, registry[i])
                    /\ KwargsMatch(registry[i], kwargs)}
    IN IF hits = {} THEN 0 ELSE CHOOSE i \in hits : \A j \in hits : i <= j

\* setattr(block, param, attribute) for every attribute that is not None
WithAttributes(block, kwargs) ==
    [param \in DOMAIN block |->
        IF param \in Params /\ kwargs[param] # NoneValue
        THEN kwargs[param] ELSE block[param]]

\* ObjectProperty.get_matching_block: the registry afterwards, the index of
\* the block returned and whether it was created
GetMatchingBlock(registry, block_type, kwargs) ==
    LET found == FirstMatching(registry, block_type, kwargs)
    IN IF found # 0
       THEN [registry |-> registry, block |-> found, created |-> FALSE]
       ELSE [registry |-> Append(registry, WithAttributes(CreateBlock(block_type), kwargs)),
             block |-> Len(registry) + 1, created |-> TRUE]

\* The keyword arguments of one call, None for those that are not passed
KwargsOf(flags, function, vertex_mode, lighting_mode) ==
    [flags |-> flags, function |-> function, vertex_mode |-> vertex_mode,
     lighting_mode |-> lighting_mode]

\* kwargs with flags only
FlagsOnly(flags) == KwargsOf(flags, NoneValue, NoneValue, NoneValue)

\* The outcome of a helper that returns without looking for a block
Nothing(registry) == [registry |-> registry, block |-> 0, created |-> FALSE, raised |-> ""]

\* The outcome of a helper that raises
Raises(registry, exception) ==
    [registry |-> registry, block |-> 0, created |-> FALSE, raised |-> exception]

\* The outcome of a helper that returns get_matching_block(...)
Returns(r) == [registry |-> r.registry, block |-> r.block, created |-> r.created, raised |-> ""]

\* ObjectProperty.export_alpha_property: looks up the Principled BSDF node of
\* a material that uses nodes and returns None
ExportAlphaProperty(registry, b_mat) ==
    IF b_mat.use_nodes /\ ~b_mat.has_principled
    THEN Raises(registry, "KeyError")
    ELSE Nothing(registry)

\* ObjectProperty.export_wireframe_property
ExportWireframeProperty(registry, b_obj) ==
    IF \E i \in 1..Len(b_obj.modifiers) : b_obj.modifiers[i] = "WIREFRAME"
    THEN Returns(GetMatchingBlock(registry, TypeWireframe, FlagsOnly(1)))
    ELSE Nothing(registry)

\* ObjectProperty.export_stencil_property
ExportStencilProperty(registry, b_mat, g) ==
    IF b_mat.use_backface_culling
    THEN Nothing(registry)
    ELSE Returns(GetMatchingBlock(registry, TypeStencil,
                                  FlagsOnly(IF IsFo3(g) THEN 19840 ELSE NoneValue)))

\* One component of the specular colour exceeds epsilon
IsSpecular(b_mat, eps) ==
    \E c \in 1..3 : b_mat.specular_color[c] > eps

\* ObjectProperty.export_specular_property
ExportSpecularProperty(registry, b_mat, g, eps) ==
    IF b_mat.exists /\ ~IsSkyrim(g) /\ NotFallout(g)
    THEN IF "ni_texturing_property_helper" \notin ObjectPropertyAttributes
         THEN Raises(registry, "AttributeError")
         ELSE IF g \in UsedExtraShaderTextures
         THEN Nothing(registry)
         ELSE IF IsSpecular(b_mat, eps)
         THEN Returns(GetMatchingBlock(registry, TypeSpecular, FlagsOnly(1)))
         ELSE Nothing(registry)
    ELSE Nothing(registry)

\* The four calls of export_object_properties whose results are dropped, in
\* order; an exception ends the sequence
ExportFourProperties(registry, b_obj, g, eps) ==
    LET alpha == ExportAlphaProperty(registry, b_obj.active_material)
        wire == ExportWireframeProperty(alpha.registry, b_obj)
        stencil == ExportStencilProperty(wire.registry, b_obj.active_material, g)
        specular == ExportSpecularProperty(stencil.registry, b_obj.active_material, g, eps)
    IN IF alpha.raised # "" THEN alpha
       ELSE IF stencil.raised # "" THEN stencil
       ELSE specular

\* ---- the scene that is exported ----

\* No material (b_obj.active_material is None)
NoMaterial ==
    [exists |-> FALSE, use_nodes |-> FALSE, has_principled |-> FALSE,
     use_backface_culling |-> TRUE, specular_color |-> <<0, 0, 0>>]

\* Materials: colour components in thousandths
Materials ==
    {[exists |-> TRUE, use_nodes |-> n[1], has_principled |-> n[2],
      use_backface_culling |-> c, specular_color |-> sp] :
        n \in {<<FALSE, FALSE>>, <<TRUE, TRUE>>, <<TRUE, FALSE>>},
        c \in BOOLEAN,
        sp \in {<<0, 0, 0>>, <<0, 0, 5>>}}

\* Arguments of export_specular_property: a material or None
MaterialsOrNone == Materials \cup {NoMaterial}

\* Objects: with or without a WIREFRAME modifier
ExportedObjects ==
    {[active_material |-> m, modifiers |-> mods] :
        m \in MaterialsOrNone,
        mods \in {<<>>, <<"SUBSURF", "WIREFRAME">>}}

\* Values of NifOp.props.epsilon, in thousandths
EpsilonValues == {1}

\* Arguments of get_matching_block
BlockTypes == {TypeStencil, TypeTriShape, TypeTriShapeData}
Kwargs ==
    {KwargsOf(f, u, NoneValue, NoneValue) : f \in {NoneValue, 1, 19840}, u \in {NoneValue, 3}}

\* Number of property export calls in one run
MaxPropCalls == 2

\* The root object of the export: the fields of b_root_obj.niftools that the
\* root node properties read; bs_inv holds no marker or one
RootObject(upb, prn_location, bs_inv, bsxflags) ==
    [upb |-> upb, prn_location |-> prn_location, bs_inv |-> bs_inv, bsxflags |-> bsxflags]

\* A root object on which nothing is set
PlainRoot == RootObject(<<>>, <<>>, <<>>, 0)

NoPropCall ==
    [op |-> "none", block_type |-> <<>>, kwargs |-> FlagsOnly(NoneValue),
     b_obj |-> [active_material |-> NoMaterial, modifiers |-> <<>>],
     b_root_obj |-> PlainRoot,
     objects |-> <<>>, bsxflags |-> 0, helpers |-> <<>>,
     block |-> 0, created |-> FALSE, raised |-> "", base |-> <<>>, n |-> 0]

\* ObjectProperty.get_matching_block(block_type, **kwargs)
GetMatchingBlockCall(block_type, kwargs) ==
    /\ pcall.n < MaxPropCalls
    /\ LET r == GetMatchingBlock(block_to_obj, block_type, kwargs)
       IN /\ block_to_obj' = r.registry
          /\ pcall' = [NoPropCall EXCEPT !.op = "get_matching_block",
                                         !.block_type = block_type,
                                         !.kwargs = kwargs,
                                         !.block = r.block,
                                         !.created = r.created,
                                         !.base = block_to_obj,
                                         !.n = pcall.n + 1]
    /\ UNCHANGED <<game, epsilon, node_properties, root_extra_data>>
    /\ UNCHANGED <<loaderVars, animVars, texVars, nodeVars>>

\* ObjectProperty.export_specular_property(b_mat, n_node)
ExportSpecularPropertyCall(b_mat) ==
    /\ pcall.n < MaxPropCalls
    /\ LET r == ExportSpecularProperty(block_to_obj, b_mat, game, epsilon)
       IN /\ block_to_obj' = r.registry
          /\ pcall' = [NoPropCall EXCEPT !.op = "export_specular_property",
                                         !.b_obj = [active_material |-> b_mat,
                                                    modifiers |-> <<>>],
                                         !.block = r.block,
                                         !.created = r.created,
                                         !.raised = r.raised,
                                         !.base = block_to_obj,
                                         !.n = pcall.n + 1]
    /\ UNCHANGED <<game, epsilon, node_properties, root_extra_data>>
    /\ UNCHANGED <<loaderVars, animVars, texVars, nodeVars>>

\* ObjectProperty.export_stencil_property(b_mat, n_node)
ExportStencilPropertyCall(b_mat) ==
    /\ pcall.n < MaxPropCalls
    /\ LET r == ExportStencilProperty(block_to_obj, b_mat, game)
       IN /\ block_to_obj' = r.registry
          /\ pcall' = [NoPropCall EXCEPT !.op = "export_stencil_property",
                                         !.b_obj = [active_material |-> b_mat,
                                                    modifiers |-> <<>>],
                                         !.block = r.block,
                                         !.created = r.created,
                                         !.raised = r.raised,
                                         !.base = block_to_obj,
                                         !.n = pcall.n + 1]
    /\ UNCHANGED <<game, epsilon, node_properties, root_extra_data>>
    /\ UNCHANGED <<loaderVars, animVars, texVars, nodeVars>>

\* ---- the properties of the root node ----

\* niftools_scene.is_bs(): the game is one of Bethesda's
IsBs(g) == g \in {GameOblivion, GameFallout3, GameSkyrim}

\* The games whose root gets a vertex colour and a z-buffer property
VertexColorGames == {GameCivilization4, GameRailroads, GameEmpireEarth2, GameZooTycoon2}

\* One entry of n_node.extra_data_list: the block, and its position in the
\* registry, 0 for a block that was constructed without the block store
ExtraData(position, block) == [position |-> position, block |-> block]

\* ObjectProperty.export_vertex_color_property(n_node, flags, vertex_mode,
\* lighting_mode)
ExportVertexColorProperty(registry, flags, vertex_mode, lighting_mode) ==
    Returns(GetMatchingBlock(registry, TypeVertexColorProperty,
                             KwargsOf(flags, NoneValue, vertex_mode, lighting_mode)))

\* ObjectProperty.export_z_buffer_property(n_node, flags, function)
ExportZBufferProperty(registry, flags, function, g) ==
    Returns(GetMatchingBlock(registry, TypeZBuffer,
                             KwargsOf(flags, IF g = GameEmpireEarth2 THEN 1 ELSE function,
                                      NoneValue, NoneValue)))

\* The NiStringExtraData block with its name and string
StringExtraData(name, string_data) ==
    [type |-> TypeStringExtraData, flags |-> DefaultField, function |-> DefaultField,
     name |-> name, string_data |-> string_data]

\* create_block("NiStringExtraData"), the name and the string set, added to
\* the extra data of the node
WithStringExtraData(registry, extra_data, name, string_data) ==
    [registry |-> Append(registry, StringExtraData(name, string_data)),
     extra_data |-> Append(extra_data, ExtraData(Len(registry) + 1,
                                                 StringExtraData(name, string_data)))]

\* ObjectProperty.export_ni_string_extra_data_upb(n_node, b_obj)
ExportNiStringExtraDataUpb(registry, extra_data, b_obj) ==
    IF /\ b_obj.upb # <<>>
       /\ \/ Find(b_obj.upb, <<"B", "S", "B", "o", "n", "e", "L", "O", "D">>) # 0 - 1
          \/ Find(b_obj.upb, <<"B", "i", "p">>) # 0 - 1
    THEN WithStringExtraData(registry, extra_data, <<"U", "P", "B">>, b_obj.upb)
    ELSE [registry |-> registry, extra_data |-> extra_data]

\* ObjectProperty.export_ni_string_extra_data_prn(n_root_node, b_root_obj)
ExportNiStringExtraDataPrn(registry, extra_data, b_root_obj, g) ==
    IF IsBs(g) /\ b_root_obj.prn_location # <<>>
    THEN WithStringExtraData(registry, extra_data, <<"P", "r", "n">>, b_root_obj.prn_location)
    ELSE [registry |-> registry, extra_data |-> extra_data]

\* round((-angle % (2 * pi)) * 1000) for an angle in thousandths of a radian,
\* up to a thousand radians either way: 2000 * pi is 6283.1853072, kept as
\* its whole part and its rest in ten-millionths; turns is the number of
\* whole turns the modulo takes off
MarkerRotation(angle) ==
    LET whole == 6283
        rest == 1853072
        unit == 10000000
        minus == 0 - angle
        Fits(k) == minus - k * whole >= (k * rest + unit - 1) \div unit
        k0 == minus \div whole
        turns == IF Fits(k0 + 1) THEN k0 + 1 ELSE IF Fits(k0) THEN k0 ELSE k0 - 1
    IN minus - turns * whole - (turns * rest + unit \div 2) \div unit

\* The BSInvMarker with the fields export_bs_inv_marker sets
InvMarker(bs_inv) ==
    [type |-> TypeInvMarker, name |-> bs_inv.name,
     rotation_x |-> MarkerRotation(bs_inv.x), rotation_y |-> MarkerRotation(bs_inv.y),
     rotation_z |-> MarkerRotation(bs_inv.z), zoom |-> bs_inv.zoom]

\* ObjectProperty.export_bs_inv_marker(n_root_node, b_root_obj): the marker
\* is constructed directly and does not enter the registry
ExportBsInvMarker(extra_data, b_root_obj, g) ==
    IF IsSkyrim(g) /\ b_root_obj.bs_inv # <<>>
    THEN Append(extra_data, ExtraData(0, InvMarker(b_root_obj.bs_inv[1])))
    ELSE extra_data

\* ---- export_bs_x_flags ----

TypeBsxFlags == <<"B", "S", "X", "F", "l", "a", "g", "s">>
NameBsx == <<"B", "S", "X">>

MotionInvalid == <<"I", "N", "V", "A", "L", "I", "D">>
MotionFixed == <<"F", "I", "X", "E", "D">>

\* An object of bpy.data.objects: parent is a position of the list, 0 for None
SceneObject(rigid_body, parent, motion_system, animation_data) ==
    [rigid_body |-> rigid_body, parent |-> parent,
     motion_system |-> motion_system, animation_data |-> animation_data]

\* x & bit # 0 for a one-bit mask
BitIsSet(x, bit) == (x \div bit) % 2 = 1

\* x |= bit
SetBit(x, bit) == IF BitIsSet(x, bit) THEN x ELSE x + bit

\* x &= ~bit
ClearBit(x, bit) == IF BitIsSet(x, bit) THEN x - bit ELSE x

\* ObjectProperty.has_collision(), from object i on: the rigid bodies whose
\* parent is no rigid body; "b_obj.parent.rigid_body" raises AttributeError
\* when the parent of a rigid body is None
RECURSIVE HasCollisionFrom(_, _, _)
HasCollisionFrom(i, objects, b_objs) ==
    IF i > Len(objects) THEN [raised |-> "", b_objs |-> b_objs]
    ELSE IF ~objects[i].rigid_body THEN HasCollisionFrom(i + 1, objects, b_objs)
    ELSE IF objects[i].parent = 0 THEN [raised |-> "AttributeError", b_objs |-> b_objs]
    ELSE IF ~objects[objects[i].parent].rigid_body
    THEN HasCollisionFrom(i + 1, objects, Append(b_objs, i))
    ELSE HasCollisionFrom(i + 1, objects, b_objs)

HasCollision(objects) == HasCollisionFrom(1, objects, <<>>)

\* ObjectProperty.has_dynamic_collision(): the rigid bodies whose motion
\* system names neither INVALID nor FIXED
HasDynamicCollision(objects) ==
    {i \in 1..Len(objects) :
        /\ objects[i].rigid_body
        /\ Find(objects[i].motion_system, MotionInvalid) = 0 - 1
        /\ Find(objects[i].motion_system, MotionFixed) = 0 - 1}

\* ObjectProperty.has_animation()
HasAnimation(objects) == \E i \in 1..Len(objects) : objects[i].animation_data

\* The BSXFlags block with its name and integer data
BsxBlock(integer_data) ==
    [type |-> TypeBsxFlags, flags |-> DefaultField, function |-> DefaultField,
     name |-> NameBsx, integer_data |-> integer_data]

\* "Set or clear animated bit"
AnimatedBit(integer_data, objects) ==
    IF HasAnimation(objects) THEN SetBit(integer_data, 1) ELSE ClearBit(integer_data, 1)

\* "Set or clear Havok bit", when has_collision returned
HavokBit(integer_data, objects) ==
    IF HasCollision(objects).b_objs # <<>>
    THEN SetBit(integer_data, 2) ELSE ClearBit(integer_data, 2)

\* "Set or clear complex bit"
ComplexBit(integer_data, objects) ==
    IF HasDynamicCollision(objects) # {} /\ Len(HasCollision(objects).b_objs) > 1
    THEN SetBit(integer_data, 4) ELSE ClearBit(integer_data, 4)

\* "Set or clear dynamic bit"
DynamicBit(integer_data, objects) ==
    IF HasDynamicCollision(objects) # {}
    THEN SetBit(integer_data, 32) ELSE ClearBit(integer_data, 32)

\* ObjectProperty.export_bs_x_flags(n_root_node, b_root_obj) with the
\* objects of bpy.data.objects: the registry, the root's extra data and the
\* exception the call ends with
ExportBsXFlags(registry, extra_data, objects, bsxflags, g) ==
    IF ~IsBs(g)
    THEN [registry |-> registry, extra_data |-> extra_data, raised |-> ""]
    ELSE LET k == Len(registry) + 1
             animated == AnimatedBit(bsxflags, objects)
             raised == HasCollision(objects).raised
             integer_data ==
                IF raised # "" THEN animated
                ELSE DynamicBit(ComplexBit(HavokBit(animated, objects), objects), objects)
         IN [registry |-> Append(registry, BsxBlock(integer_data)),
             extra_data |-> Append(extra_data, ExtraData(k, BsxBlock(integer_data))),
             raised |-> raised]

\* ObjectProperty.export_root_node_properties(n_root_node, b_root_obj) with
\* the objects of bpy.data.objects: the vertex colour and z-buffer properties
\* of the games that want them, then the UPB and Prn strings, the inventory
\* marker and the BSX flags
ExportRootNodeProperties(registry, extra_data, b_root_obj, objects, g) ==
    LET colored == IF g \in VertexColorGames
                   THEN ExportZBufferProperty(
                            ExportVertexColorProperty(registry, 1, 0, 1).registry, 15, 3, g).registry
                   ELSE registry
        upb == ExportNiStringExtraDataUpb(colored, extra_data, b_root_obj)
        prn == ExportNiStringExtraDataPrn(upb.registry, upb.extra_data, b_root_obj, g)
        marked == ExportBsInvMarker(prn.extra_data, b_root_obj, g)
    IN ExportBsXFlags(prn.registry, marked, objects, b_root_obj.bsxflags, g)

\* One call of export_root_node_properties, for the root of the export
ExportRootNodePropertiesCall(b_root_obj, objects) ==
    /\ pcall.op = "none"
    /\ LET r == ExportRootNodeProperties(block_to_obj, root_extra_data, b_root_obj,
                                         objects, game)
       IN /\ block_to_obj' = r.registry
          /\ root_extra_data' = r.extra_data
          /\ pcall' = [NoPropCall EXCEPT !.op = "export_root_node_properties",
                                         !.b_root_obj = b_root_obj,
                                         !.objects = objects,
                                         !.bsxflags = b_root_obj.bsxflags,
                                         !.raised = r.raised,
                                         !.base = block_to_obj,
                                         !.n = pcall.n + 1]
    /\ UNCHANGED <<game, epsilon, node_properties>>
    /\ UNCHANGED <<loaderVars, animVars, texVars, nodeVars>>

\* One call of export_vertex_color_property with the default arguments
ExportVertexColorPropertyCall ==
    /\ pcall.n < MaxPropCalls
    /\ LET r == ExportVertexColorProperty(block_to_obj, 1, 0, 1)
       IN /\ block_to_obj' = r.registry
          /\ pcall' = [NoPropCall EXCEPT !.op = "export_vertex_color_property",
                                         !.block = r.block,
                                         !.created = r.created,
                                         !.base = block_to_obj,
                                         !.n = pcall.n + 1]
    /\ UNCHANGED <<game, epsilon, node_properties, root_extra_data>>
    /\ UNCHANGED <<loaderVars, animVars, texVars, nodeVars>>

\* One call of export_z_buffer_property with the default arguments
ExportZBufferPropertyCall ==
    /\ pcall.n < MaxPropCalls
    /\ LET r == ExportZBufferProperty(block_to_obj, 15, 3, game)
       IN /\ block_to_obj' = r.registry
          /\ pcall' = [NoPropCall EXCEPT !.op = "export_z_buffer_property",
                                         !.block = r.block,
                                         !.created = r.created,
                                         !.base = block_to_obj,
                                         !.n = pcall.n + 1]
    /\ UNCHANGED <<game, epsilon, node_properties, root_extra_data>>
    /\ UNCHANGED <<loaderVars, animVars, texVars, nodeVars>>

\* One call of export_ni_string_extra_data_upb
ExportNiStringExtraDataUpbCall(b_obj) ==
    /\ pcall.n < MaxPropCalls
    /\ LET r == ExportNiStringExtraDataUpb(block_to_obj, root_extra_data, b_obj)
       IN /\ block_to_obj' = r.registry
          /\ root_extra_data' = r.extra_data
          /\ pcall' = [NoPropCall EXCEPT !.op = "export_ni_string_extra_data_upb",
                                         !.b_root_obj = b_obj,
                                         !.base = block_to_obj,
                                         !.n = pcall.n + 1]
    /\ UNCHANGED <<game, epsilon, node_properties>>
    /\ UNCHANGED <<loaderVars, animVars, texVars, nodeVars>>

\* One call of export_ni_string_extra_data_prn
ExportNiStringExtraDataPrnCall(b_root_obj) ==
    /\ pcall.n < MaxPropCalls
    /\ LET r == ExportNiStringExtraDataPrn(block_to_obj, root_extra_data, b_root_obj, game)
       IN /\ block_to_obj' = r.registry
          /\ root_extra_data' = r.extra_data
          /\ pcall' = [NoPropCall EXCEPT !.op = "export_ni_string_extra_data_prn",
                                         !.b_root_obj = b_root_obj,
                                         !.base = block_to_obj,
                                         !.n = pcall.n + 1]
    /\ UNCHANGED <<game, epsilon, node_properties>>
    /\ UNCHANGED <<loaderVars, animVars, texVars, nodeVars>>

\* One call of export_bs_inv_marker
ExportBsInvMarkerCall(b_root_obj) ==
    /\ pcall.n < MaxPropCalls
    /\ root_extra_data' = ExportBsInvMarker(root_extra_data, b_root_obj, game)
    /\ pcall' = [NoPropCall EXCEPT !.op = "export_bs_inv_marker",
                                   !.b_root_obj = b_root_obj,
                                   !.base = block_to_obj,
                                   !.n = pcall.n + 1]
    /\ UNCHANGED <<game, epsilon, block_to_obj, node_properties>>
    /\ UNCHANGED <<loaderVars, animVars, texVars, nodeVars>>

\* One call of export_bs_x_flags, for the root of the export
ExportBsXFlagsCall(objects, bsxflags) ==
    /\ pcall.op = "none"
    /\ LET r == ExportBsXFlags(block_to_obj, root_extra_data, objects, bsxflags, game)
       IN /\ block_to_obj' = r.registry
          /\ root_extra_data' = r.extra_data
          /\ pcall' = [NoPropCall EXCEPT !.op = "export_bs_x_flags",
                                         !.objects = objects,
                                         !.bsxflags = bsxflags,
                                         !.raised = r.raised,
                                         !.base = block_to_obj,
                                         !.n = pcall.n + 1]
    /\ UNCHANGED <<game, epsilon, node_properties>>
    /\ UNCHANGED <<loaderVars, animVars, texVars, nodeVars>>

\* The property export state while other modules run
PropsIdle ==
    /\ game = GameOblivion
    /\ epsilon = 1
    /\ block_to_obj = <<>>
    /\ node_properties = <<>>
    /\ root_extra_data = <<>>
    /\ pcall = NoPropCall

-----------------------------------------------------------------------------
(***************************************************************************)
(* Texturing property export: NiTexturingProperty, and the blend types of  *)
(* NodesWrapper                                                            *)
(***************************************************************************)

\* The members of NifClasses.ApplyMode
ApplyModes ==
    {"APPLY_REPLACE", "APPLY_DECAL", "APPLY_MODULATE", "APPLY_HILIGHT", "APPLY_HILIGHT2"}

\* Values handed to the import table that are no member of ApplyMode
OtherApplyModes == {"None", "MIX"}

\* The blend types of a Blender mix node that the export table is asked about
BlendTypes == {"MIX", "LIGHTEN", "MULTIPLY", "COLOR", "OVERLAY", "ADD", "DARKEN"}

\* Every value handed to the import table
ApplyModeValues == ApplyModes \cup OtherApplyModes

\* What a table lookup returns, and whether NifLog.warn was called
Looked(result, warned) == [result |-> result, warned |-> warned]

\* (variant: APPLY_HILIGHT2 falls through to the default)
GetBBlendTypeWithoutHilight2(n_apply_mode) ==
    IF n_apply_mode = "APPLY_MODULATE" THEN Looked("MIX", FALSE)
    ELSE IF n_apply_mode = "APPLY_REPLACE" THEN Looked("COLOR", FALSE)
    ELSE IF n_apply_mode = "APPLY_DECAL" THEN Looked("OVERLAY", FALSE)
    ELSE IF n_apply_mode = "APPLY_HILIGHT" THEN Looked("LIGHTEN", FALSE)
    ELSE Looked("MIX", TRUE)

\* NodesWrapper.get_b_blend_type_from_n_apply_mode
GetBBlendTypeFromNApplyMode(n_apply_mode) ==
    IF n_apply_mode = "APPLY_MODULATE" THEN Looked("MIX", FALSE)
    ELSE IF n_apply_mode = "APPLY_REPLACE" THEN Looked("COLOR", FALSE)
    ELSE IF n_apply_mode = "APPLY_DECAL" THEN Looked("OVERLAY", FALSE)
    ELSE IF n_apply_mode = "APPLY_HILIGHT" THEN Looked("LIGHTEN", FALSE)
    ELSE IF n_apply_mode = "APPLY_HILIGHT2" THEN Looked("MULTIPLY", FALSE)
    ELSE Looked("MIX", TRUE)

\* (variant: "MIX" is not in the table and takes the default with its warning)
GetNApplyModeWithoutMix(b_blend_type) ==
    IF b_blend_type = "LIGHTEN" THEN Looked("APPLY_HILIGHT", FALSE)
    ELSE IF b_blend_type = "MULTIPLY" THEN Looked("APPLY_HILIGHT2", FALSE)
    ELSE Looked("APPLY_MODULATE", TRUE)

\* NiTexturingProperty.get_n_apply_mode_from_b_blend_type
GetNApplyModeFromBBlendType(b_blend_type) ==
    IF b_blend_type = "LIGHTEN" THEN Looked("APPLY_HILIGHT", FALSE)
    ELSE IF b_blend_type = "MULTIPLY" THEN Looked("APPLY_HILIGHT2", FALSE)
    ELSE IF b_blend_type = "MIX" THEN Looked("APPLY_MODULATE", FALSE)
    ELSE Looked("APPLY_MODULATE", TRUE)

\* c is a decimal digit
IsDigit(c) == \E d \in 0..9 : Digit(d) = c

DigitValue(c) == CHOOSE d \in 0..9 : Digit(d) = c

\* The whitespace characters without an escape of their own, written as the
\* characters themselves: vertical tab (0x0b), next line (0x85) and the
\* no-break space (0xa0)
ControlSpaces == <<"", "", " ">>

\* The information separators 0x1c, 0x1d, 0x1e and 0x1f: str.isspace accepts
\* them, int() does not skip them
InformationSeparators == <<"", "", "", "">>

\* The characters int() skips around the digits: the ASCII whitespace, and
\* the whitespace of U+0080..U+00FF (those above are not written in this
\* module)
Whitespace ==
    {" ", "\t", "\n", "\r", "\f"} \cup {ControlSpaces[i] : i \in DOMAIN ControlSpaces}

RECURSIVE StripLeft(_)
StripLeft(s) ==
    IF s # <<>> /\ Head(s) \in Whitespace THEN StripLeft(Tail(s)) ELSE s

RECURSIVE StripRight(_)
StripRight(s) ==
    IF s # <<>> /\ s[Len(s)] \in Whitespace THEN StripRight(DropLast(s, 1)) ELSE s

\* What int(str) yields: the value, or ok = FALSE where it raises ValueError
Parsed(ok, value) == [ok |-> ok, value |-> value]

\* The digits of an integer literal: single underscores only between digits
RECURSIVE PyDigits(_, _, _)
PyDigits(s, acc, after_digit) ==
    IF s = <<>> THEN Parsed(after_digit, acc)
    ELSE IF IsDigit(Head(s))
         THEN PyDigits(Tail(s), acc * 10 + DigitValue(Head(s)), TRUE)
    ELSE IF Head(s) = "_" /\ after_digit
         THEN PyDigits(Tail(s), acc, FALSE)
    ELSE Parsed(FALSE, 0)

\* int(s) for a str s: surrounding whitespace, an optional sign, the digits
PyInt(s) ==
    LET body == StripRight(StripLeft(s))
        signed == body # <<>> /\ Head(body) \in {"+", "-"}
        digits == PyDigits(IF signed THEN Tail(body) ELSE body, 0, FALSE)
    IN IF ~digits.ok THEN Parsed(FALSE, 0)
       ELSE IF signed /\ Head(body) = "-" THEN Parsed(TRUE, 0 - digits.value)
       ELSE digits

\* The node types of a material's shader graph
TypeUVMap == "ShaderNodeUVMap"
TypeTexCoord == "ShaderNodeTexCoord"
TypeMapping == "ShaderNodeMapping"
TypeRGB == "ShaderNodeRGB"

\* get_input_node_of_type(socket, node_types): the position, in the chain of
\* nodes that feeds the socket, of the nearest node of one of the types; 0
\* when the socket is not linked or no such node feeds it
RECURSIVE GetInputNodeOfTypeFrom(_, _, _)
GetInputNodeOfTypeFrom(i, chain, node_types) ==
    IF i > Len(chain) THEN 0
    ELSE IF chain[i] \in node_types THEN i
    ELSE GetInputNodeOfTypeFrom(i + 1, chain, node_types)

GetInputNodeOfType(chain, node_types) == GetInputNodeOfTypeFrom(1, chain, node_types)

\* What get_uv_node returns: the str, or "int" with the number in uv
UvResult(raised, result, uv) == [raised |-> raised, result |-> result, uv |-> uv]

\* (variant: the whole name is parsed, prefix included)
UvIndexOfWholeName(uv_name) ==
    LET parsed == PyInt(uv_name)
    IN IF parsed.ok THEN parsed.value ELSE 0

\* "try: return int(uv_name[2:]) except: return 0"
UvIndexOf(uv_name) ==
    LET parsed == PyInt(DropFirst(uv_name, 2))
    IN IF parsed.ok THEN parsed.value ELSE 0

\* NiTexturingProperty.get_uv_node(b_texture_node): chain lists the types of
\* the nodes that feed inputs[0], nearest first; uv_map is the uv_map of the
\* UV Map node found; b_mat_set says whether self.b_mat holds a material,
\* whose name the message of the NifError reads
GetUvNode(b_texture_node, b_mat_set) ==
    LET found == GetInputNodeOfType(b_texture_node.chain, {TypeUVMap, TypeTexCoord})
        links == b_texture_node.chain
    IN IF found = 0 /\ links = <<>> THEN UvResult("", "int", 0)
       ELSE IF found # 0 /\ b_texture_node.chain[found] = TypeUVMap
            THEN UvResult("", "int", UvIndexOf(b_texture_node.uv_map))
       ELSE IF found # 0 /\ b_texture_node.chain[found] = TypeTexCoord
            THEN UvResult("", "REFLECT", 0)
       ELSE IF b_mat_set THEN UvResult("NifError", "", 0)
       ELSE UvResult("AttributeError", "", 0)

\* (variant: the constructor does not look at the stored instance)
InstanceExistsIgnored(inst) == FALSE

\* "if NiTexturingProperty.__instance"
InstanceExists(inst) == inst # 0

\* NiTexturingProperty.__init__: raises when an instance is stored, otherwise
\* stores the new object
Constructing(inst, count) ==
    IF InstanceExists(inst)
    THEN [raised |-> "Exception", instance |-> inst, constructed |-> count]
    ELSE [raised |-> "", instance |-> count + 1, constructed |-> count + 1]

\* NiTexturingProperty.get: constructs when no instance is stored
Getting(inst, count) ==
    IF ~InstanceExists(inst) THEN Constructing(inst, count)
    ELSE [raised |-> "", instance |-> inst, constructed |-> count]

\* The chains of nodes feeding the vector input of a texture node
Chains ==
    {<<>>, <<TypeUVMap>>, <<TypeTexCoord>>, <<TypeMapping>>, <<TypeRGB>>,
     <<TypeMapping, TypeUVMap>>, <<TypeMapping, TypeTexCoord>>,
     <<TypeMapping, TypeRGB>>}

\* The names of the UV maps the UV Map nodes refer to
UvNames ==
    {<<"U", "V", "0">>,
     <<"U", "V", "1">>,
     <<"U", "V", "1", "2">>,
     <<"U", "V", "M", "a", "p">>,
     <<"U", "V">>,
     <<>>,
     <<"U">>,
     <<"U", "V", "-", "1">>,
     <<"U", "V", "+", "2">>,
     <<"U", "V", " ", "3">>,
     <<"U", "V", "\r", "1">>,
     <<"U", "V", "2", "\f">>,
     <<"U", "V", ControlSpaces[1], "1">>,
     <<"U", "V", ControlSpaces[3], "6">>,
     <<"U", "V", "2", ControlSpaces[1]>>,
     <<"U", "V", ControlSpaces[2], "4", ControlSpaces[2]>>,
     <<"U", "V", ControlSpaces[2], "4", InformationSeparators[2]>>,
     <<"U", "V", InformationSeparators[1], "5">>,
     <<"U", "V", "7", InformationSeparators[4]>>,
     <<"U", "V", InformationSeparators[3], "8">>,
     <<"U", "V", "1", "_", "0">>,
     <<"U", "V", "1", "a">>,
     <<"U", "V", "_", "1">>,
     <<"a", "b", "3">>,
     <<"1", "2">>}

\* The image texture nodes get_uv_node is applied to
TextureNodes == [chain : Chains, uv_map : UvNames]

NoTextureNode == [chain |-> <<>>, uv_map |-> <<>>]

MaxTexCalls == 2

\* What is remembered of the call before the last one
Earlier(call) == [op |-> call.op, mode |-> call.mode, result |-> call.result]

NoTexCall ==
    [op |-> "none", mode |-> "", node |-> NoTextureNode, result |-> "", value |-> 0,
     warned |-> FALSE, raised |-> "", base |-> 0,
     prev |-> [op |-> "none", mode |-> "", result |-> ""], n |-> 0]

\* One call of get_b_blend_type_from_n_apply_mode
GetBBlendTypeCall(n_apply_mode) ==
    /\ tcall.n < MaxTexCalls
    /\ LET r == GetBBlendTypeFromNApplyMode(n_apply_mode)
       IN tcall' = [NoTexCall EXCEPT !.op = "get_b_blend_type_from_n_apply_mode",
                                     !.mode = n_apply_mode,
                                     !.result = r.result,
                                     !.warned = r.warned,
                                     !.base = instance,
                                     !.prev = Earlier(tcall),
                                     !.n = tcall.n + 1]
    /\ UNCHANGED <<instance, constructed, has_b_mat>>
    /\ UNCHANGED <<loaderVars, animVars, propVars, nodeVars>>

\* One call of get_n_apply_mode_from_b_blend_type
GetNApplyModeCall(b_blend_type) ==
    /\ tcall.n < MaxTexCalls
    /\ LET r == GetNApplyModeFromBBlendType(b_blend_type)
       IN tcall' = [NoTexCall EXCEPT !.op = "get_n_apply_mode_from_b_blend_type",
                                     !.mode = b_blend_type,
                                     !.result = r.result,
                                     !.warned = r.warned,
                                     !.base = instance,
                                     !.prev = Earlier(tcall),
                                     !.n = tcall.n + 1]
    /\ UNCHANGED <<instance, constructed, has_b_mat>>
    /\ UNCHANGED <<loaderVars, animVars, propVars, nodeVars>>

\* One call of get_uv_node: the method reads the stored material only to
\* name it in the NifError, and fails with AttributeError there when none is
\* stored
GetUvNodeCall(b_texture_node) ==
    /\ tcall.n < MaxTexCalls
    /\ LET r == GetUvNode(b_texture_node, has_b_mat)
       IN tcall' = [NoTexCall EXCEPT !.op = "get_uv_node",
                                     !.node = b_texture_node,
                                     !.result = r.result,
                                     !.value = r.uv,
                                     !.raised = r.raised,
                                     !.base = instance,
                                     !.prev = Earlier(tcall),
                                     !.n = tcall.n + 1]
    /\ UNCHANGED <<instance, constructed, has_b_mat>>
    /\ UNCHANGED <<loaderVars, animVars, propVars, nodeVars>>

\* NiTexturingProperty.get()
Get ==
    /\ tcall.n < MaxTexCalls
    /\ LET r == Getting(instance, constructed)
       IN /\ instance' = r.instance
          /\ constructed' = r.constructed
          /\ tcall' = [NoTexCall EXCEPT !.op = "get",
                                        !.value = r.instance,
                                        !.raised = r.raised,
                                        !.base = instance,
                                        !.prev = Earlier(tcall),
                                        !.n = tcall.n + 1]
    /\ UNCHANGED has_b_mat
    /\ UNCHANGED <<loaderVars, animVars, propVars, nodeVars>>

\* NiTexturingProperty(): the constructor called directly
Construct ==
    /\ tcall.n < MaxTexCalls
    /\ LET r == Constructing(instance, constructed)
       IN /\ instance' = r.instance
          /\ constructed' = r.constructed
          /\ tcall' = [NoTexCall EXCEPT !.op = "__init__",
                                        !.value = r.instance,
                                        !.raised = r.raised,
                                        !.base = instance,
                                        !.prev = Earlier(tcall),
                                        !.n = tcall.n + 1]
    /\ UNCHANGED has_b_mat
    /\ UNCHANGED <<loaderVars, animVars, propVars, nodeVars>>

\* The classes of the blocks the texturing export registers
TypeTexturing == <<"N", "i", "T", "e", "x", "t", "u", "r", "i", "n", "g", "P", "r", "o", "p", "e", "r", "t", "y">>
TypeSourceTexture == <<"N", "i", "S", "o", "u", "r", "c", "e", "T", "e", "x", "t", "u", "r", "e">>

\* A block of the registry with the fields the texturing export sets; for a
\* NiSourceTexture only file_name counts
TextureBlock(block_type, flags, apply_mode, uv, file_name) ==
    [type |-> block_type, flags |-> flags, apply_mode |-> apply_mode,
     texture_count |-> IF block_type = TypeTexturing THEN 7 ELSE 0,
     has_base_texture |-> uv.result # "", base_uv_kind |-> uv.result,
     base_uv_set |-> uv.uv, file_name |-> file_name]

\* n_block.get_hash(): the blocks the export reuses are those "with
\* identical field values", so the hash is taken to be the field values the
\* export sets
GetHash(n_block) ==
    <<n_block.flags, n_block.apply_mode, n_block.texture_count,
      n_block.has_base_texture, n_block.base_uv_kind, n_block.base_uv_set,
      n_block.file_name>>

\* (variant: the hash is compared with the property itself, never equal)
IsDuplicateNever(n_block, n_ni_texturing_property) == FALSE

\* "isinstance(n_block, NiTexturingProperty) and n_block.get_hash() ==
\* n_ni_texturing_property.get_hash()"
IsDuplicate(n_block, n_ni_texturing_property) ==
    /\ n_block.type = TypeTexturing
    /\ GetHash(n_block) = GetHash(n_ni_texturing_property)

\* The duplicate search: the position of the last registered block that is a
\* duplicate of the property, 0 when the property stays the fresh one
RECURSIVE SearchDuplicateFrom(_, _, _, _)
SearchDuplicateFrom(i, registry, n_ni_texturing_property, found) ==
    IF i > Len(registry) THEN found
    ELSE SearchDuplicateFrom(i + 1, registry, n_ni_texturing_property,
                             IF IsDuplicate(registry[i], n_ni_texturing_property)
                             THEN i ELSE found)

\* TextureCommon.export_source_texture: the NiSourceTexture of the image's
\* file, registered once per file name
ExportSourceTexture(registry, file_name) ==
    IF \E i \in 1..Len(registry) :
          registry[i].type = TypeSourceTexture /\ registry[i].file_name = file_name
    THEN registry
    ELSE Append(registry,
                TextureBlock(TypeSourceTexture, 0, "", UvResult("", "", 0), file_name))

\* block_store.register_block(block): "reuse an existing block if one with
\* identical field values already exists in the registry, else create new";
\* position is where the block is registered, 0 for a fresh block
RegisterBlock(registry, position, n_block) ==
    IF position # 0 THEN [registry |-> registry, block |-> position, created |-> FALSE]
    ELSE [registry |-> Append(registry, n_block), block |-> Len(registry) + 1,
          created |-> TRUE]

\* NiTexturingProperty.export_ni_texturing_property(b_mat, n_ni_geometry,
\* n_bs_shader_property, applymode): the registry afterwards, the block
\* attached to the geometry (0 for none) and the exception raised.  b_mat has
\* a base texture node or none; no_lighting says that n_bs_shader_property is
\* a BSShaderNoLightingProperty.  determine_texture_types(b_mat) has stored
\* the material in self.b_mat before the base texture is looked at
ExportNiTexturingProperty(registry, b_mat, no_lighting, applymode) ==
    LET uv == IF b_mat.has_base THEN GetUvNode(b_mat.base, TRUE)
              ELSE UvResult("", "", 0)
    IN IF uv.raised # ""
       THEN [registry |-> registry, block |-> 0, created |-> FALSE, raised |-> uv.raised]
       ELSE LET sourced == IF b_mat.has_base
                           THEN ExportSourceTexture(registry, b_mat.image)
                           ELSE registry
                n_ni_texturing_property ==
                    TextureBlock(TypeTexturing, b_mat.texture_flags, applymode, uv,
                                 IF b_mat.has_base THEN b_mat.image ELSE <<>>)
                n_block == SearchDuplicateFrom(1, sourced, n_ni_texturing_property, 0)
                r == RegisterBlock(sourced, n_block, n_ni_texturing_property)
            IN [registry |-> r.registry, block |-> r.block, created |-> r.created,
                raised |-> IF no_lighting /\ ~b_mat.has_base
                           THEN "AttributeError" ELSE ""]

\* The materials whose textures are exported: without a base texture, or with
\* one whose vector input is fed in one of the ways of get_uv_node
TexturedMaterials ==
    {[texture_flags |-> flags, has_base |-> FALSE, base |-> NoTextureNode, image |-> <<>>] :
        flags \in {0, 1}}
    \cup {[texture_flags |-> flags, has_base |-> TRUE,
           base |-> [chain |-> chain, uv_map |-> uv_map], image |-> FnAb] :
            flags \in {0, 1},
            chain \in {<<>>, <<TypeUVMap>>, <<TypeTexCoord>>, <<TypeRGB>>},
            uv_map \in {<<"U", "V", "0">>, <<"U", "V", "1">>,
                        <<"U", "V", ControlSpaces[2], "4", ControlSpaces[2]>>,
                        <<"U", "V", InformationSeparators[1], "5">>}}

\* The materials without a base texture and without texture flags
BaselessMaterials ==
    {b_mat \in TexturedMaterials : ~b_mat.has_base /\ b_mat.texture_flags = 0}

\* One call of export_ni_texturing_property
ExportNiTexturingPropertyCall(b_mat, no_lighting, applymode) ==
    /\ pcall.n < MaxPropCalls
    /\ LET r == ExportNiTexturingProperty(block_to_obj, b_mat, no_lighting, applymode)
       IN /\ block_to_obj' = r.registry
          /\ node_properties' = IF r.block # 0 THEN Append(node_properties, r.block)
                                ELSE node_properties
          /\ pcall' = [NoPropCall EXCEPT !.op = "export_ni_texturing_property",
                                         !.block = r.block,
                                         !.created = r.created,
                                         !.raised = r.raised,
                                         !.base = block_to_obj,
                                         !.n = pcall.n + 1]
    /\ has_b_mat' = TRUE
    /\ UNCHANGED <<game, epsilon, root_extra_data>>
    /\ UNCHANGED <<instance, constructed, tcall>>
    /\ UNCHANGED <<loaderVars, animVars, nodeVars>>

\* ---- export_texture_effect ----

TypeTextureEffect == <<"N", "i", "T", "e", "x", "t", "u", "r", "e", "E", "f", "f", "e", "c", "t">>
GameMorrowind == <<"M", "O", "R", "R", "O", "W", "I", "N", "D">>

\* The position of the NiSourceTexture of a file in the registry, 0 for none
SourceTextureOf(registry, file_name) ==
    LET hits == {i \in 1..Len(registry) :
                    registry[i].type = TypeSourceTexture
                    /\ registry[i].file_name = file_name}
    IN IF hits = {} THEN 0 ELSE CHOOSE i \in hits : \A j \in hits : i <= j

\* The NiTextureEffect block with the fields export_texture_effect sets;
\* source_texture is a registry position, 0 for none, scale and
\* unknown_vector_x are whole numbers
TextureEffect(source_texture, affected) ==
    [type |-> TypeTextureEffect, flags |-> 4, scale |-> 1,
     texture_filtering |-> "FILTER_TRILERP", texture_clamping |-> "WRAP_S_WRAP_T",
     texture_type |-> "EFFECT_ENVIRONMENT_MAP",
     coordinate_generation_type |-> "CG_SPHERE_MAP",
     source_texture |-> source_texture,
     num_affected_node_list_pointers |-> Len(affected),
     affected_node_list_pointers |-> affected,
     unknown_vector_x |-> 1]

\* NiTexturingProperty.export_texture_effect(b_texture_node): the block is a
\* new one, so register_block adds it
ExportTextureEffect(registry, b_texture_node, g) ==
    LET sourced == IF b_texture_node.exists
                   THEN ExportSourceTexture(registry, b_texture_node.texture)
                   ELSE registry
        texeff == IF b_texture_node.exists
                  THEN TextureEffect(SourceTextureOf(sourced, b_texture_node.texture),
                                     IF g = GameMorrowind THEN <<0>> ELSE <<>>)
                  ELSE TextureEffect(0, <<>>)
    IN RegisterBlock(sourced, 0, texeff)

\* The texture nodes handed to export_texture_effect: None, or a node with
\* the file of its texture
EffectTextureNodes ==
    {[exists |-> FALSE, texture |-> <<>>], [exists |-> TRUE, texture |-> FnAb],
     [exists |-> TRUE, texture |-> FnTexAb]}

\* One call of export_texture_effect
ExportTextureEffectCall(b_texture_node) ==
    /\ pcall.n < MaxPropCalls
    /\ LET r == ExportTextureEffect(block_to_obj, b_texture_node, game)
       IN /\ block_to_obj' = r.registry
          /\ pcall' = [NoPropCall EXCEPT !.op = "export_texture_effect",
                                         !.block = r.block,
                                         !.created = r.created,
                                         !.base = block_to_obj,
                                         !.n = pcall.n + 1]
    /\ UNCHANGED <<game, epsilon, node_properties, root_extra_data>>
    /\ UNCHANGED <<loaderVars, animVars, texVars, nodeVars>>

\* ---- export_object_properties, which ends in the texture helper ----

\* A material without texture nodes
UntexturedMaterial ==
    [texture_flags |-> 0, has_base |-> FALSE, base |-> NoTextureNode, image |-> <<>>]

\* The calls export_object_properties makes after the four of its own class
HelperCalls == <<"export_material_property", "export_textures">>

\* ObjectProperty.export_object_properties(b_obj, n_node). The two helpers
\* it ends with are outside these sources: others tells whether
\* export_material_property attaches a NiMaterialProperty of the registry to
\* n_node, textures whether export_textures exports a NiTexturingProperty for
\* the material, which has no base texture, and attaches it
ExportObjectProperties(b_obj, others, textures) ==
    /\ pcall.n < MaxPropCalls
    /\ IF ~b_obj.active_material.exists
       THEN /\ pcall' = [NoPropCall EXCEPT !.op = "export_object_properties",
                                           !.b_obj = b_obj,
                                           !.base = block_to_obj,
                                           !.n = pcall.n + 1]
            /\ UNCHANGED <<block_to_obj, node_properties, has_b_mat>>
       ELSE LET r == ExportFourProperties(block_to_obj, b_obj, game, epsilon)
                reached == r.raised = ""
                h == IF reached /\ others
                     THEN GetMatchingBlock(r.registry, TypeMaterial, FlagsOnly(NoneValue))
                     ELSE [registry |-> r.registry, block |-> 0, created |-> FALSE]
                with_material == IF h.block # 0 THEN Append(node_properties, h.block)
                                 ELSE node_properties
                t == IF reached /\ textures
                     THEN ExportNiTexturingProperty(h.registry, UntexturedMaterial, FALSE,
                                                    "APPLY_MODULATE")
                     ELSE [registry |-> h.registry, block |-> 0, created |-> FALSE,
                           raised |-> ""]
            IN /\ block_to_obj' = t.registry
               /\ node_properties' = IF t.block # 0 THEN Append(with_material, t.block)
                                     ELSE with_material
               /\ has_b_mat' = (has_b_mat \/ (reached /\ textures))
               /\ pcall' = [NoPropCall EXCEPT !.op = "export_object_properties",
                                              !.b_obj = b_obj,
                                              !.helpers = IF reached THEN HelperCalls
                                                          ELSE <<>>,
                                              !.raised = r.raised,
                                              !.base = block_to_obj,
                                              !.n = pcall.n + 1]
    /\ UNCHANGED <<game, epsilon, root_extra_data>>
    /\ UNCHANGED <<instance, constructed, tcall>>
    /\ UNCHANGED <<loaderVars, animVars, nodeVars>>

\* The texturing helper state while other modules run
TexIdle ==
    /\ instance = 0
    /\ constructed = 0
    /\ has_b_mat = FALSE
    /\ tcall = NoTexCall

-----------------------------------------------------------------------------
(***************************************************************************)
(* Node tree import: NodesWrapper                                          *)
(***************************************************************************)

TypeTexImage == "ShaderNodeTexImage"
TypeMixRGB == "ShaderNodeMixRGB"
TypeGroup == "ShaderNodeGroup"
TypeNormalMap == "ShaderNodeNormalMap"
TypeOutputMaterial == "ShaderNodeOutputMaterial"
TypeBsdfDiffuse == "ShaderNodeBsdfDiffuse"
TypeVertexColor == "ShaderNodeVertexColor"
TypeBsdfTransparent == "ShaderNodeBsdfTransparent"
TypeMixShader == "ShaderNodeMixShader"

\* tree.nodes.new(node_type): the node with the fields the wrapper sets
\* later still unset
NewNode(node_type) ==
    [type |-> node_type, label |-> <<>>, image |-> NoImage, uv_map |-> <<>>,
     blend_type |-> "", name |-> <<>>, operation |-> "", use_clamp |-> FALSE,
     input_1 |-> 0, input_2 |-> 0, extension |-> "REPEAT", layer_name |-> ""]

\* The decimal digits of a natural number
RECURSIVE Digits(_)
Digits(n) == IF n < 10 THEN <<Digit(n)>> ELSE Append(Digits(n \div 10), Digit(n % 10))

\* f"{n}" for an int
Decimal(n) == IF n < 0 THEN <<"-">> \o Digits(0 - n) ELSE Digits(n)

\* NodesWrapper.uv_node_name(uv_index)
UvNodeName(uv_index) == <<"T", "e", "x", "C", "o", "o", "r", "d", "I", "n", "d", "e", "x", "_">> \o Decimal(uv_index)

\* A link from output out of one node to input inp of another
Link(from, out, to, inp) == [from |-> from, out |-> out, to |-> to, inp |-> inp]

\* tree.links.new(output, input): an input socket holds one link, so the link
\* it held is removed
NewLink(links, link) ==
    SelectSeq(links, LAMBDA l : ~(l.to = link.to /\ l.inp = link.inp)) \o <<link>>

\* Several tree.links.new calls, one after the other
RECURSIVE NewLinks(_, _)
NewLinks(links, added) ==
    IF added = <<>> THEN links
    ELSE NewLinks(NewLink(links, Head(added)), Tail(added))

\* The Output Material node, created first by clear_default_nodes
OutputNode == 1

\* The node tree and the wrapper's fields that the link methods work on
Tree(nodes, links, groups, pass, texture, vertex_colors) ==
    [nodes |-> nodes, links |-> links, groups |-> groups, pass |-> pass,
     texture |-> texture, vcol |-> vertex_colors]

\* The position of self.diffuse_shader, created second by clear_default_nodes
DiffuseShader == 2

\* (variant: the lookup by name finds nothing)
ExistingUvNodeNeverFound(nodes, uv_index) == 0

\* tree.nodes.get(uv_node_name(uv_index)): the position of the node of that
\* name, 0 for None
ExistingUvNode(nodes, uv_index) ==
    LET named == {i \in 1..Len(nodes) : nodes[i].name = UvNodeName(uv_index)}
    IN IF named = {} THEN 0 ELSE CHOOSE i \in named : \A j \in named : i <= j

\* NodesWrapper.set_uv_map(b_texture_node, uv_index, reflective)
SetUvMap(t, b_texture_node, uv_index, reflective) ==
    IF reflective
    THEN LET nodes == Append(t.nodes, NewNode(TypeTexCoord))
         IN [t EXCEPT !.nodes = nodes,
                      !.links = NewLink(t.links, Link(Len(nodes), "6", b_texture_node, "0"))]
    ELSE LET existing_node == ExistingUvNode(t.nodes, uv_index)
             nodes == IF existing_node = 0
                      THEN Append(t.nodes,
                                  [NewNode(TypeUVMap) EXCEPT
                                      !.name = UvNodeName(uv_index),
                                      !.uv_map = <<"U", "V">> \o Decimal(uv_index)])
                      ELSE t.nodes
             uv == IF existing_node = 0 THEN Len(nodes) ELSE existing_node
         IN [t EXCEPT !.nodes = nodes,
                      !.links = NewLink(t.links, Link(uv, "0", b_texture_node, "0"))]

\* NodesWrapper.create_texture_slot once the image is there: a new image
\* texture node with that image, wired to its UV Map node
CreateTextureSlot(t, b_image, uv_layer_index) ==
    LET nodes == Append(t.nodes, [NewNode(TypeTexImage) EXCEPT !.image = b_image])
    IN SetUvMap([t EXCEPT !.nodes = nodes], Len(nodes), uv_layer_index, FALSE)

\* NodesWrapper.connect_to_pass(self.diffuse_pass, b_texture_node,
\* texture_type) with its result stored in self.diffuse_pass: the tree afterwards
ConnectToPass(t, b_texture_node, texture_type) ==
    IF t.pass # 0
    THEN LET blend == IF texture_type \in {"Detail", "Reflect"} THEN "OVERLAY"
                      ELSE IF texture_type = "Vertex_Color" THEN "MULTIPLY"
                      ELSE "MIX"
             nodes == Append(t.nodes, [NewNode(TypeMixRGB) EXCEPT !.blend_type = blend])
             rgb_mixer == Len(nodes)
             mask == IF texture_type = "Decal"
                     THEN <<Link(b_texture_node, "1", rgb_mixer, "0")>>
                     ELSE <<>>
         IN [t EXCEPT !.nodes = nodes,
                      !.links = NewLinks(t.links,
                                         mask \o <<Link(t.pass, "0", rgb_mixer, "1"),
                                                   Link(b_texture_node, "0", rgb_mixer, "2")>>),
                      !.pass = rgb_mixer]
    ELSE [t EXCEPT !.pass = b_texture_node]

\* NodesWrapper.connect_vertex_colors_to_pass()
ConnectVertexColorsToPass(t) ==
    LET nodes == Append(t.nodes, [NewNode(TypeVertexColor) EXCEPT !.layer_name = "RGBA"])
    IN ConnectToPass([t EXCEPT !.nodes = nodes, !.vcol = Len(nodes)],
                     Len(nodes), "Vertex_Color")

\* The links into input 0 of the alpha mixer: the alpha of the diffuse
\* texture times the alpha of the vertex colours, or the one there is
AlphaLinks(t, has_vcol, alpha_mixer, mixAAA) ==
    IF t.texture # 0 /\ has_vcol
    THEN <<Link(t.texture, "1", mixAAA, "1"), Link(t.vcol, "1", mixAAA, "2"),
           Link(mixAAA, "0", alpha_mixer, "0")>>
    ELSE IF t.texture # 0 THEN <<Link(t.texture, "1", alpha_mixer, "0")>>
    ELSE IF has_vcol THEN <<Link(t.vcol, "1", alpha_mixer, "0")>>
    ELSE <<>>

\* NodesWrapper.connect_to_output(has_vcol) on a material with that blend
\* method; nodes_iterate only moves the nodes on the canvas
ConnectToOutput(t, has_vcol, blend_method) ==
    LET coloured == IF has_vcol THEN ConnectVertexColorsToPass(t) ELSE t
        shaded == IF coloured.pass # 0
                  THEN [coloured EXCEPT
                           !.links = NewLink(coloured.links,
                                             Link(coloured.pass, "0", DiffuseShader, "0"))]
                  ELSE coloured
    IN IF blend_method = "OPAQUE"
       THEN [shaded EXCEPT
                !.links = NewLink(shaded.links, Link(DiffuseShader, "0", OutputNode, "0"))]
       ELSE LET transp == Len(shaded.nodes) + 1
                alpha_mixer == Len(shaded.nodes) + 2
                mixAAA == Len(shaded.nodes) + 3
                mixed == IF shaded.texture # 0 /\ has_vcol
                         THEN <<[NewNode(TypeMixRGB) EXCEPT !.blend_type = "MULTIPLY"]>>
                         ELSE <<>>
            IN [shaded EXCEPT
                  !.nodes = shaded.nodes
                            \o <<NewNode(TypeBsdfTransparent), NewNode(TypeMixShader)>>
                            \o mixed,
                  !.links = NewLinks(shaded.links,
                                AlphaLinks(shaded, has_vcol, alpha_mixer, mixAAA)
                                \o <<Link(transp, "0", alpha_mixer, "1"),
                                     Link(DiffuseShader, "0", alpha_mixer, "2"),
                                     Link(alpha_mixer, "0", OutputNode, "0")>>)]

\* NodesWrapper.clear_default_nodes(): every node goes, and its links with
\* it; self.vcol keeps pointing at the node it was
ClearDefaultNodes(t) ==
    [t EXCEPT !.nodes = <<NewNode(TypeOutputMaterial), NewNode(TypeBsdfDiffuse)>>,
              !.links = <<>>,
              !.pass = 0,
              !.texture = 0]

\* b_texture_node.label = label
Labelled(t, b_texture_node, label) ==
    [t EXCEPT !.nodes[b_texture_node].label = label]

\* What a link method leaves behind: the tree, and the exception it raised
Linked(t, raised) == [tree |-> t, raised |-> raised]

\* NodesWrapper.link_normal_node
LinkNormalNode(t, b_texture_node, model_space_normals) ==
    LET labelled == Labelled(t, b_texture_node, <<"N", "O", "R", "M", "A", "L">>)
    IN IF t.nodes[b_texture_node].image = NoImage
       THEN \* None has no colorspace_settings
            Linked(labelled, "AttributeError")
       ELSE LET nodes == Append(labelled.nodes, NewNode(TypeGroup))
                group_node == Len(nodes)
                grouped == [labelled EXCEPT
                               !.nodes = nodes,
                               !.groups = labelled.groups \cup {"InvertY"},
                               !.links = NewLink(labelled.links,
                                                 Link(b_texture_node, "Color",
                                                      group_node, "Input"))]
            IN IF model_space_normals
               THEN Linked([grouped EXCEPT
                               !.links = NewLink(grouped.links,
                                                 Link(group_node, "Output",
                                                      DiffuseShader, "2"))],
                           "")
               ELSE LET tangent_converter == group_node + 1
                    IN Linked([grouped EXCEPT
                                  !.nodes = Append(grouped.nodes, NewNode(TypeNormalMap)),
                                  !.links = NewLinks(grouped.links,
                                                <<Link(group_node, "Output",
                                                       tangent_converter, "Color"),
                                                  Link(tangent_converter, "Normal",
                                                       DiffuseShader, "2")>>)],
                              "")

\* The link_<slot>_node methods of NodesWrapper, by name
LinkBase == <<"l", "i", "n", "k", "_", "b", "a", "s", "e", "_", "n", "o", "d", "e">>
LinkBumpMap == <<"l", "i", "n", "k", "_", "b", "u", "m", "p", "_", "m", "a", "p", "_", "n", "o", "d", "e">>
LinkNormal == <<"l", "i", "n", "k", "_", "n", "o", "r", "m", "a", "l", "_", "n", "o", "d", "e">>
LinkGlow == <<"l", "i", "n", "k", "_", "g", "l", "o", "w", "_", "n", "o", "d", "e">>
LinkGloss == <<"l", "i", "n", "k", "_", "g", "l", "o", "s", "s", "_", "n", "o", "d", "e">>
LinkDecal0 == <<"l", "i", "n", "k", "_", "d", "e", "c", "a", "l", "_", "0", "_", "n", "o", "d", "e">>
LinkDecal1 == <<"l", "i", "n", "k", "_", "d", "e", "c", "a", "l", "_", "1", "_", "n", "o", "d", "e">>
LinkDecal2 == <<"l", "i", "n", "k", "_", "d", "e", "c", "a", "l", "_", "2", "_", "n", "o", "d", "e">>
LinkDetail == <<"l", "i", "n", "k", "_", "d", "e", "t", "a", "i", "l", "_", "n", "o", "d", "e">>
LinkDark == <<"l", "i", "n", "k", "_", "d", "a", "r", "k", "_", "n", "o", "d", "e">>
LinkReflection == <<"l", "i", "n", "k", "_", "r", "e", "f", "l", "e", "c", "t", "i", "o", "n", "_", "n", "o", "d", "e">>
LinkEnvironment == <<"l", "i", "n", "k", "_", "e", "n", "v", "i", "r", "o", "n", "m", "e", "n", "t", "_", "n", "o", "d", "e">>

LinkMethods ==
    {LinkBase, LinkBumpMap, LinkNormal, LinkGlow, LinkGloss, LinkDecal0, LinkDecal1,
     LinkDecal2, LinkDetail, LinkDark, LinkReflection, LinkEnvironment}

\* import_func(b_texture): the link method of that name applied to the node.
\* An image texture node takes no new attributes, so the first assignment of
\* link_reflection_node and of link_environment_node raises
ImportFunc(import_func_name, t, b_texture_node, model_space_normals) ==
    CASE import_func_name = LinkBase ->
            Linked(ConnectToPass([Labelled(t, b_texture_node, <<"B", "A", "S", "E">>)
                                     EXCEPT !.texture = b_texture_node],
                                 b_texture_node, "Detail"), "")
      [] import_func_name = LinkBumpMap -> Linked(Labelled(t, b_texture_node, <<"B", "U", "M", "P", "_", "M", "A", "P">>), "")
      [] import_func_name = LinkNormal ->
            LinkNormalNode(t, b_texture_node, model_space_normals)
      [] import_func_name = LinkGlow -> Linked(Labelled(t, b_texture_node, <<"G", "L", "O", "W">>), "")
      [] import_func_name = LinkGloss -> Linked(Labelled(t, b_texture_node, <<"G", "L", "O", "S", "S">>), "")
      [] import_func_name = LinkDecal0 ->
            Linked(ConnectToPass(Labelled(t, b_texture_node, <<"D", "E", "C", "A", "L", "_", "0">>),
                                 b_texture_node, "Decal"), "")
      [] import_func_name = LinkDecal1 ->
            Linked(ConnectToPass(Labelled(t, b_texture_node, <<"D", "E", "C", "A", "L", "_", "1">>),
                                 b_texture_node, "Decal"), "")
      [] import_func_name = LinkDecal2 ->
            Linked(ConnectToPass(Labelled(t, b_texture_node, <<"D", "E", "C", "A", "L", "_", "2">>),
                                 b_texture_node, "Decal"), "")
      [] import_func_name = LinkDetail ->
            Linked(ConnectToPass(Labelled(t, b_texture_node, <<"D", "E", "T", "A", "I", "L">>),
                                 b_texture_node, "Detail"), "")
      [] import_func_name = LinkDark -> Linked(Labelled(t, b_texture_node, <<"D", "A", "R", "K">>), "")
      [] import_func_name = LinkReflection -> Linked(t, "AttributeError")
      [] import_func_name = LinkEnvironment -> Linked(t, "AttributeError")

\* f"link_{slot_name.lower().replace(' ', '_')}_node"
ImportFuncName(slot_name) ==
    <<"l", "i", "n", "k", "_">> \o Replace(Lower(slot_name), " ", "_")
    \o <<"_", "n", "o", "d", "e">>

\* getattr(self, import_func_name, None) finds a method
HasImportFunc(import_func_name) == import_func_name \in LinkMethods

\* The slot names create_and_link is called with
SlotNames ==
    {<<"B", "a", "s", "e">>,
     <<"B", "u", "m", "p", " ", "M", "a", "p">>,
     <<"N", "o", "r", "m", "a", "l">>,
     <<"G", "l", "o", "w">>,
     <<"G", "l", "o", "s", "s">>,
     <<"D", "e", "c", "a", "l", " ", "0">>,
     <<"D", "e", "c", "a", "l", " ", "1">>,
     <<"D", "e", "c", "a", "l", " ", "2">>,
     <<"D", "e", "t", "a", "i", "l">>,
     <<"D", "a", "r", "k">>,
     <<"R", "e", "f", "l", "e", "c", "t", "i", "o", "n">>,
     <<"E", "n", "v", "i", "r", "o", "n", "m", "e", "n", "t">>,
     <<"S", "p", "e", "c", "u", "l", "a", "r">>,
     <<"H", "e", "i", "g", "h", "t">>,
     <<"B", "A", "S", "E">>,
     <<>>}

\* n_tex_info: a TexDesc with its source and uv_set, or a bare path string;
\* use_external is the flag of the NiSourceTexture
TexInfo(is_tex_desc, source, use_external, uv_set) ==
    [is_tex_desc |-> is_tex_desc, source |-> source, use_external |-> use_external,
     uv_set |-> uv_set]

TexInfos ==
    { TexInfo(TRUE, NoSource, FALSE, 0),
      TexInfo(TRUE, Source("NiSourceTexture", FnAb, "dds"),
              TRUE, 0),
      TexInfo(TRUE, Source("NiSourceTexture", FnAb, "dds"),
              FALSE, 0),
      TexInfo(TRUE, Source("NiSourceTexture", FnNoDirAb, "dds"),
              FALSE, 1),
      TexInfo(FALSE, Source("str", FnTexAb, "none"),
              FALSE, 0) }

\* The uv sets of the imported textures
UvSets == {n_tex_info.uv_set : n_tex_info \in TexInfos}

MaxNodeCalls == 2

\* Values of b_mat.blend_method
BlendMethods == {"OPAQUE", "BLEND"}

\* The material after clear_default_nodes
Material(blend_method) ==
    [use_backface_culling |-> TRUE, use_nodes |-> TRUE, blend_method |-> blend_method]

\* The nodes of the tree that a call can be given
MaxTreeNodes == 8
NodePositions == 1..MaxTreeNodes

\* The scale, offset and clamp flag of one axis; found is FALSE for the None
\* of the three values
Axis(found, scale, offset, clamp) ==
    [found |-> found, scale |-> scale, offset |-> offset, clamp |-> clamp]

\* x_scale = y_scale = x_offset = y_offset = clamp_x = clamp_y = None
NoTransform == [x |-> Axis(FALSE, 0, 0, FALSE), y |-> Axis(FALSE, 0, 0, FALSE)]

NoNodeCall ==
    [op |-> "none", slot_name |-> <<>>, func |-> <<>>, n_tex_info |-> TexInfo(TRUE, NoSource, FALSE, 0),
     passed |-> 0, raised |-> "", base_nodes |-> <<>>, base_links |-> <<>>,
     base_images |-> {}, base_loads |-> 0, given |-> NoTransform,
     returned |-> NoTransform, warned |-> FALSE, uv_index |-> 0, has_vcol |-> FALSE,
     n |-> 0]

\* NodesWrapper.create_and_link(slot_name, n_tex_info), create_texture_slot
\* and the link method included
CreateAndLink(slot_name, n_tex_info, use_embedded_texture, model_space_normals) ==
    /\ ncall.n < MaxNodeCalls
    /\ LET import_func_name == ImportFuncName(slot_name)
           call == [NoNodeCall EXCEPT !.op = "create_and_link",
                                      !.slot_name = slot_name,
                                      !.func = import_func_name,
                                      !.n_tex_info = n_tex_info,
                                      !.base_nodes = tree_nodes,
                                      !.base_links = tree_links,
                                      !.base_images = images,
                                      !.base_loads = lcall.n,
                                      !.n = ncall.n + 1]
       IN IF ~HasImportFunc(import_func_name)
          THEN /\ ncall' = call
               /\ UNCHANGED <<tree_nodes, tree_links, node_groups, diffuse_pass,
                              diffuse_texture>>
               /\ UNCHANGED loaderVars
          ELSE /\ ImportTextureSourceEffect(n_tex_info.source, n_tex_info.use_external,
                                            use_embedded_texture)
               /\ IF lcall'.raised # ""
                  THEN \* import_texture_source raised: no node was created
                       /\ ncall' = [call EXCEPT !.raised = lcall'.raised]
                       /\ UNCHANGED <<tree_nodes, tree_links, node_groups, diffuse_pass,
                                      diffuse_texture>>
                  ELSE LET uv_layer_index == IF n_tex_info.is_tex_desc
                                             THEN n_tex_info.uv_set ELSE 0
                           t == Tree(tree_nodes, tree_links, node_groups, diffuse_pass,
                                     diffuse_texture, vcol)
                           b_texture == Len(tree_nodes) + 1
                           slot == CreateTextureSlot(t, lcall'.image, uv_layer_index)
                           r == ImportFunc(import_func_name, slot, b_texture,
                                           model_space_normals)
                       IN /\ tree_nodes' = r.tree.nodes
                          /\ tree_links' = r.tree.links
                          /\ node_groups' = r.tree.groups
                          /\ diffuse_pass' = r.tree.pass
                          /\ diffuse_texture' = r.tree.texture
                          /\ ncall' = [call EXCEPT !.passed = b_texture,
                                                   !.uv_index = uv_layer_index,
                                                   !.raised = r.raised]
    /\ UNCHANGED <<vcol, b_material>>
    /\ UNCHANGED <<animVars, propVars, texVars>>

\* The tree and the wrapper's fields after a call
TreeBecomes(r) ==
    /\ tree_nodes' = r.nodes
    /\ tree_links' = r.links
    /\ node_groups' = r.groups
    /\ diffuse_pass' = r.pass
    /\ diffuse_texture' = r.texture
    /\ vcol' = r.vcol

\* One call of set_uv_map on an image texture node of the tree
SetUvMapCall(b_texture_node, uv_index, reflective) ==
    /\ ncall.n < MaxNodeCalls
    /\ b_texture_node <= Len(tree_nodes)
    /\ tree_nodes[b_texture_node].type = TypeTexImage
    /\ TreeBecomes(SetUvMap(Tree(tree_nodes, tree_links, node_groups, diffuse_pass,
                                 diffuse_texture, vcol),
                            b_texture_node, uv_index, reflective))
    /\ ncall' = [NoNodeCall EXCEPT !.op = "set_uv_map",
                                   !.passed = b_texture_node,
                                   !.uv_index = uv_index,
                                   !.base_nodes = tree_nodes,
                                   !.base_links = tree_links,
                                   !.n = ncall.n + 1]
    /\ UNCHANGED b_material
    /\ UNCHANGED <<loaderVars, animVars, propVars, texVars>>

\* One call of clear_default_nodes
ClearDefaultNodesCall ==
    /\ ncall.n < MaxNodeCalls
    /\ TreeBecomes(ClearDefaultNodes(Tree(tree_nodes, tree_links, node_groups,
                                          diffuse_pass, diffuse_texture, vcol)))
    /\ b_material' = [b_material EXCEPT !.use_backface_culling = TRUE, !.use_nodes = TRUE]
    /\ ncall' = [NoNodeCall EXCEPT !.op = "clear_default_nodes",
                                   !.base_nodes = tree_nodes,
                                   !.base_links = tree_links,
                                   !.n = ncall.n + 1]
    /\ UNCHANGED <<loaderVars, animVars, propVars, texVars>>

\* One call of connect_vertex_colors_to_pass
ConnectVertexColorsToPassCall ==
    /\ ncall.n < MaxNodeCalls
    /\ TreeBecomes(ConnectVertexColorsToPass(Tree(tree_nodes, tree_links, node_groups,
                                                  diffuse_pass, diffuse_texture, vcol)))
    /\ ncall' = [NoNodeCall EXCEPT !.op = "connect_vertex_colors_to_pass",
                                   !.base_nodes = tree_nodes,
                                   !.base_links = tree_links,
                                   !.n = ncall.n + 1]
    /\ UNCHANGED b_material
    /\ UNCHANGED <<loaderVars, animVars, propVars, texVars>>

\* One call of connect_to_output
ConnectToOutputCall(has_vcol) ==
    /\ ncall.n < MaxNodeCalls
    /\ TreeBecomes(ConnectToOutput(Tree(tree_nodes, tree_links, node_groups,
                                        diffuse_pass, diffuse_texture, vcol),
                                   has_vcol, b_material.blend_method))
    /\ ncall' = [NoNodeCall EXCEPT !.op = "connect_to_output",
                                   !.has_vcol = has_vcol,
                                   !.base_nodes = tree_nodes,
                                   !.base_links = tree_links,
                                   !.n = ncall.n + 1]
    /\ UNCHANGED b_material
    /\ UNCHANGED <<loaderVars, animVars, propVars, texVars>>

\* ---- the global UV transform ----

TypeSeparateXYZ == "ShaderNodeSeparateXYZ"
TypeCombineXYZ == "ShaderNodeCombineXYZ"
TypeMath == "ShaderNodeMath"

\* f"Separate UV{uv_index}", f"Combine UV{uv_index}", f"X offset and scale
\* UV{uv_index}" and f"Y offset and scale UV{uv_index}" for the uv indexes
\* of the imported textures
NodeName(kind, uv_index) ==
    (CASE kind = "Separate" -> <<"S", "e", "p", "a", "r", "a", "t", "e", " ", "U", "V">>
       [] kind = "Combine" -> <<"C", "o", "m", "b", "i", "n", "e", " ", "U", "V">>
       [] kind = "X" -> <<"X">> \o <<" ", "o", "f", "f", "s", "e", "t", " ", "a", "n", "d", " ", "s", "c", "a", "l", "e", " ", "U", "V">>
       [] kind = "Y" -> <<"Y">> \o <<" ", "o", "f", "f", "s", "e", "t", " ", "a", "n", "d", " ", "s", "c", "a", "l", "e", " ", "U", "V">>)
    \o Decimal(uv_index)

\* f".{k:03d}", the suffix a node tree gives a name it already holds
NameSuffix(k) ==
    <<".">> \o (IF k < 10 THEN <<"0", "0">> ELSE IF k < 100 THEN <<"0">> ELSE <<>>) \o Decimal(k)

\* node.name = name: the names of a tree's nodes are unique, so a name the
\* tree holds already is stored with the first free suffix .001, .002, ...
UniqueName(nodes, name) ==
    LET Taken(n) == \E i \in 1..Len(nodes) : nodes[i].name = n
        Free == {k \in 1..(Len(nodes) + 1) : ~Taken(name \o NameSuffix(k))}
    IN IF ~Taken(name) THEN name
       ELSE name \o NameSuffix(CHOOSE k \in Free : \A j \in Free : k <= j)

\* A new node of the tree with its name, and the name read back as its label
NamedNode(nodes, node_type, kind, uv_index) ==
    LET Named(name) == [NewNode(node_type) EXCEPT !.name = name, !.label = name]
    IN Named(UniqueName(nodes, NodeName(kind, uv_index)))

\* The math node of one axis
MathNode(nodes, kind, uv_index, scale, offset, use_clamp) ==
    [NamedNode(nodes, TypeMath, kind, uv_index) EXCEPT !.operation = "MULTIPLY_ADD",
                                                !.use_clamp = use_clamp,
                                                !.input_1 = scale,
                                                !.input_2 = offset]

\* The "while True" loop: the number of UV Map nodes TexCoordIndex_0,
\* TexCoordIndex_1, ... the tree holds, counted from uv_index on
RECURSIVE UvNodeCount(_, _)
UvNodeCount(nodes, uv_index) ==
    LET uv_node == ExistingUvNode(nodes, uv_index)
    IN IF uv_node # 0 /\ nodes[uv_node].type = TypeUVMap
       THEN UvNodeCount(nodes, uv_index + 1)
       ELSE uv_index

\* The loop over uv_node.outputs[0].links, from link l on: a link into an
\* image texture node is removed and a link from the combine node to the
\* same socket is added at the end
RECURSIVE Relinked(_, _, _, _, _, _)
Relinked(l, links, nodes, uv_node, combine_node, added) ==
    IF l > Len(links) THEN added
    ELSE IF /\ links[l].from = uv_node /\ links[l].out = "0"
            /\ nodes[links[l].to].type = TypeTexImage
    THEN Relinked(l + 1, links, nodes, uv_node, combine_node,
                  Append(added, Link(combine_node, "0", links[l].to, links[l].inp)))
    ELSE <<links[l]>> \o Relinked(l + 1, links, nodes, uv_node, combine_node, added)

\* The body of the loop over uv_nodes for one UV Map node
OffsetAndScale(t, uv_index, x_scale, y_scale, x_offset, y_offset, clamp_x, clamp_y) ==
    LET clip_texture == clamp_x /\ clamp_y
        uv_node == ExistingUvNode(t.nodes, uv_index)
        split_node == Len(t.nodes) + 1
        combine_node == Len(t.nodes) + 2
        x_node == Len(t.nodes) + 3
        y_node == Len(t.nodes) + 4
        created ==
            t.nodes \o
            <<NamedNode(t.nodes, TypeSeparateXYZ, "Separate", uv_index),
              NamedNode(t.nodes, TypeCombineXYZ, "Combine", uv_index),
              MathNode(t.nodes, "X", uv_index, x_scale, x_offset, clamp_x /\ ~clip_texture),
              MathNode(t.nodes, "Y", uv_index, y_scale, y_offset, clamp_y /\ ~clip_texture)>>
        targets == {t.links[l].to : l \in {m \in 1..Len(t.links) :
                        /\ t.links[m].from = uv_node /\ t.links[m].out = "0"
                        /\ t.nodes[t.links[m].to].type = TypeTexImage}}
        wired == NewLinks(t.links,
                          <<Link(split_node, "0", x_node, "0"),
                            Link(x_node, "0", combine_node, "0"),
                            Link(split_node, "1", y_node, "0"),
                            Link(y_node, "0", combine_node, "1")>>)
    IN [t EXCEPT
          !.nodes = [n \in 1..Len(created) |->
                        IF n \in targets /\ clip_texture
                        THEN [created[n] EXCEPT !.extension = "CLIP"]
                        ELSE created[n]],
          !.links = NewLink(Relinked(1, wired, t.nodes, uv_node, combine_node, <<>>),
                            Link(uv_node, "0", split_node, "0"))]

\* The loop over uv_nodes, from uv_index on; v holds the six arguments
RECURSIVE OffsetAndScaleFrom(_, _, _, _)
OffsetAndScaleFrom(uv_index, count, t, v) ==
    IF uv_index >= count THEN t
    ELSE OffsetAndScaleFrom(uv_index + 1, count,
                            OffsetAndScale(t, uv_index, v[1], v[2], v[3], v[4], v[5], v[6]),
                            v)

\* NodesWrapper.global_uv_offset_scale(x_scale, y_scale, x_offset, y_offset,
\* clamp_x, clamp_y)
GlobalUvOffsetScale(t, x_scale, y_scale, x_offset, y_offset, clamp_x, clamp_y) ==
    OffsetAndScaleFrom(0, UvNodeCount(t.nodes, 0), t,
                       <<x_scale, y_scale, x_offset, y_offset, clamp_x, clamp_y>>)

\* One call of global_uv_offset_scale, made once for a material
GlobalUvOffsetScaleCall(transform) ==
    /\ ncall.given = NoTransform
    /\ LET t == Tree(tree_nodes, tree_links, node_groups, diffuse_pass, diffuse_texture, vcol)
           r == GlobalUvOffsetScale(t, transform.x.scale, transform.y.scale,
                                    transform.x.offset, transform.y.offset,
                                    transform.x.clamp, transform.y.clamp)
       IN /\ tree_nodes' = r.nodes
          /\ tree_links' = r.links
          /\ ncall' = [NoNodeCall EXCEPT !.op = "global_uv_offset_scale",
                                         !.given = transform,
                                         !.base_nodes = tree_nodes,
                                         !.base_links = tree_links,
                                         !.n = ncall.n]
    /\ UNCHANGED <<node_groups, diffuse_pass, diffuse_texture, vcol, b_material>>
    /\ UNCHANGED <<loaderVars, animVars, propVars, texVars>>

\* self.b_mat.node_tree.nodes[name]: the position of the node of that name,
\* 0 where the lookup raises KeyError
NodeNamed(nodes, name) ==
    IF \E i \in 1..Len(nodes) : nodes[i].name = name
    THEN CHOOSE i \in 1..Len(nodes) : nodes[i].name = name
    ELSE 0

\* The first entry of self.slots that is not None: the first image texture
\* node of the tree, 0 when it has none
FirstSlotNode(nodes) ==
    LET textures == {i \in 1..Len(nodes) : nodes[i].type = TypeTexImage}
    IN IF textures = {} THEN 0 ELSE CHOOSE i \in textures : \A j \in textures : i <= j

\* The link into input inp of a node: the node it comes from, 0 without a link
FromNode(t, node, inp) ==
    LET into == {l \in 1..Len(t.links) : t.links[l].to = node /\ t.links[l].inp = inp}
    IN IF into = {} THEN 0
       ELSE t.links[CHOOSE l \in into : \A m \in into : l <= m].from

\* The nodes that feed input 0 of a node, nearest first
RECURSIVE FeedingChain(_, _, _)
FeedingChain(t, node, steps) ==
    LET from_node == FromNode(t, node, "0")
    IN IF from_node = 0 \/ steps = 0 THEN <<>>
       ELSE <<from_node>> \o FeedingChain(t, from_node, steps - 1)

\* The combine node get_global_uv_transform_clip reads: the node named
\* "Combine UV0" when it is a ShaderNodeCombineXYZ, else the one found behind
\* the vector input of the first texture slot; warned tells that the lookup
\* by name failed
CombineNode(t) ==
    LET named == NodeNamed(t.nodes, <<"C", "o", "m", "b", "i", "n", "e", " ", "U", "V", "0">>)
        slot_node == FirstSlotNode(t.nodes)
        chain == IF slot_node = 0 THEN <<>> ELSE FeedingChain(t, slot_node, Len(t.nodes))
        types == [i \in 1..Len(chain) |-> t.nodes[chain[i]].type]
        hit == GetInputNodeOfType(types, {TypeCombineXYZ})
    IN IF named # 0 /\ t.nodes[named].type = TypeCombineXYZ
       THEN [node |-> named, warned |-> FALSE]
       ELSE [node |-> IF hit = 0 THEN 0 ELSE chain[hit], warned |-> TRUE]

\* The values read from the math node behind one input of the combine node
AxisOf(t, combine_node, inp) ==
    LET from_node == IF combine_node = 0 THEN 0 ELSE FromNode(t, combine_node, inp)
    IN IF from_node = 0 THEN Axis(FALSE, 0, 0, FALSE)
       ELSE Axis(TRUE, t.nodes[from_node].input_1, t.nodes[from_node].input_2,
                 t.nodes[from_node].use_clamp)

\* NiTexturingProperty.get_global_uv_transform_clip()
GetGlobalUvTransformClip(t) ==
    LET combine_node == CombineNode(t).node
    IN [x |-> AxisOf(t, combine_node, "0"), y |-> AxisOf(t, combine_node, "1")]

\* One call of get_global_uv_transform_clip on the material's tree
GetGlobalUvTransformClipCall ==
    /\ ncall.op # "get_global_uv_transform_clip"
    /\ LET t == Tree(tree_nodes, tree_links, node_groups, diffuse_pass, diffuse_texture, vcol)
       IN ncall' = [NoNodeCall EXCEPT !.op = "get_global_uv_transform_clip",
                                      !.given = ncall.given,
                                      !.returned = GetGlobalUvTransformClip(t),
                                      !.warned = CombineNode(t).warned,
                                      !.base_nodes = tree_nodes,
                                      !.base_links = tree_links,
                                      !.n = ncall.n]
    /\ UNCHANGED <<tree_nodes, tree_links, node_groups, diffuse_pass, diffuse_texture>>
    /\ UNCHANGED <<vcol, b_material>>
    /\ UNCHANGED <<loaderVars, animVars, propVars, texVars>>

\* The node tree state while other modules run
NodesIdle ==
    /\ tree_nodes = <<>>
    /\ tree_links = <<>>
    /\ node_groups = {}
    /\ diffuse_pass = 0
    /\ diffuse_texture = 0
    /\ vcol = 0
    /\ b_material = Material("OPAQUE")
    /\ ncall = NoNodeCall

\* The state of the other modules while the loader or the animation export runs
OthersIdle == PropsIdle /\ TexIdle /\ NodesIdle

-----------------------------------------------------------------------------
\* The animation state while the loader runs
AnimIdle ==
    /\ properties = [o \in Objects |-> <<>>]
    /\ fps = 24
    /\ block_store = <<>>
    /\ texprop_controller = [o \in Objects |-> 0]
    /\ seq_block = NoControlledBlock
    /\ target_controllers = <<>>
    /\ geometry_controllers = <<>>
    /\ warnings = 0
    /\ acall = NoAnimCall

\* The loader state while the exporter runs
LoaderIdle ==
    /\ filepath = <<>>
    /\ texture_directory = <<>>
    /\ files = {}
    /\ corrupt = {}
    /\ images = {}
    /\ external_textures = {}
    /\ writes = <<>>
    /\ lcall = NoCall

\* The files below the directories an import next to fp searches, for any
\* setting of the texture directory
SearchedFiles(fp) ==
    {f \in FileUniverse :
        \E texdir \in TextureDirectories :
            \E i \in DOMAIN SearchPathList(fp, texdir) :
                StartsWith(f, CandidatePath(SearchPathList(fp, texdir)[i], <<>>))}

\* The state at the start of a search: the disk holds files of the
\* directories the import searches
InitSearch ==
    /\ \E setting \in ImportSettings :
          /\ filepath = setting[1]
          /\ texture_directory = setting[2]
          /\ files \in {fs \in InitialDisks : fs \subseteq SearchedFiles(setting[1])}
    /\ corrupt = {}
    /\ images = {}
    /\ external_textures = {}
    /\ writes = <<>>
    /\ lcall = NoCall
    /\ AnimIdle
    /\ OthersIdle

NextSearch ==
    \E source \in ExternalSources : lcall.n < MaxSearches /\ ImportExternalSource(source)

\* The search for external textures on every disk and under every setting
SpecSearch == InitSearch /\ [][NextSearch]_vars

\* The external sources of a run that converts embedded textures too: a path
\* string and a NiSourceTexture with a name, and the empty path
RunSources ==
    { Source("str", FnAb, "none"),
      Source("NiSourceTexture", FnSubAb, "none"),
      Source("str", <<>>, "none") }

\* The disks such a run starts on, next to "/p/m.nif"
RunDisks == { {}, {PAb}, {PImage0}, {PAb, TAb} }

\* The state at the start of an import run next to "/p/m.nif"
Init ==
    /\ filepath = NifPath
    /\ texture_directory \in {<<>>, <<"/", "t">>}
    /\ files \in RunDisks
    /\ corrupt = {}
    /\ images = {}
    /\ external_textures = {}
    /\ writes = <<>>
    /\ lcall = NoCall
    /\ AnimIdle
    /\ OthersIdle

Next ==
    \/ \E source \in RunSources : ImportExternalSource(source)
    \/ \E source \in EmbeddedSources : ImportEmbeddedTextureSource(source)

\* The import run: texture sources are converted one after the other
Spec == Init /\ [][Next]_vars

\* The state at the start of an export call: the Cube's geometry carries a
\* NiTexturingProperty, the Plane's a material property only, the geometry
\* of the mesh without a material no property; the block store is empty or
\* holds the blocks exported before
InitAnim ==
    /\ properties = [o \in Objects |->
                        IF o = "Cube"
                        THEN <<"NiMaterialProperty", "NiTexturingProperty">>
                        ELSE IF o = "Plane" THEN <<"NiMaterialProperty">>
                        ELSE <<>>]
    /\ fps \in FpsValues
    /\ block_store \in {<<>>, <<NewBlock("NiNode"), NewBlock("NiTriShape")>>}
    /\ texprop_controller = [o \in Objects |-> 0]
    /\ seq_block = NoControlledBlock
    /\ target_controllers = <<>>
    /\ geometry_controllers = <<>>
    /\ warnings = 0
    /\ acall = NoAnimCall
    /\ LoaderIdle
    /\ OthersIdle

NextAnim ==
    \/ \E b_controlled_blocks \in SeqsUpTo(ControlledBlocks, MaxBlocks),
          use_sequence \in BOOLEAN :
            ExportTextureAnimations(b_controlled_blocks, use_sequence)
    \/ \E tlist \in SeqsUpTo(FlipLines, MaxLines),
          target_tex \in {"BASE_MAP", "GLOW_MAP"}, frames \in SceneFrames :
            ExportNiFlipController(tlist, target_tex, frames)

\* The export run: texture animations and flip controllers are exported
SpecAnim == InitAnim /\ [][NextAnim]_vars

PathSlotOffset == <<"t", "e", "x", "t", "u", "r", "e", "_", "s", "l", "o", "t", "s", "[", "0", "]", ".", "o", "f", "f", "s", "e", "t">>
PathSlotScale == <<"t", "e", "x", "t", "u", "r", "e", "_", "s", "l", "o", "t", "s", "[", "0", "]", ".", "s", "c", "a", "l", "e">>
PathLocation == <<"l", "o", "c", "a", "t", "i", "o", "n">>

\* The key data of a UV curve: absent, without keyframe points, one or two points
UvCurveChoices == {"absent", "empty", "one", "two"}

UvPoints(choice) ==
    CASE choice = "one" -> KeysB
      [] choice = "two" -> KeysA
      [] OTHER -> <<>>

\* The F-curves of a UV action: an unrelated curve, then the chosen ones,
\* the scale curves before the offset curves
UvCurves(o0, o1, s0, s1) ==
    <<UvFcurve(PathLocation, 0, KeysA)>>
    \o (IF s1 = "absent" THEN <<>> ELSE <<UvFcurve(PathSlotScale, 1, UvPoints(s1))>>)
    \o (IF s0 = "absent" THEN <<>> ELSE <<UvFcurve(PathSlotScale, 0, UvPoints(s0))>>)
    \o (IF o1 = "absent" THEN <<>> ELSE <<UvFcurve(PathSlotOffset, 1, UvPoints(o1))>>)
    \o (IF o0 = "absent" THEN <<>> ELSE <<UvFcurve(PathSlotOffset, 0, UvPoints(o0))>>)

\* The actions handed to export_ni_uv_controller
UvActions ==
    { [name |-> "Uv", id_root |-> "MATERIAL", frame_start |-> 0, frame_end |-> 30,
       fcurves |-> UvCurves(o0, o1, s0, s1)] :
         o0 \in UvCurveChoices, o1 \in {"absent", "two"},
         s0 \in {"absent", "one"}, s1 \in {"absent", "two"} }

NextUv == \E b_action \in UvActions : ExportNiUvController(b_action)

\* export_ni_uv_controller applied to one action
SpecUv == InitAnim /\ [][NextUv]_vars

\* The F-curves handed to export_fcurve_to_nif_keys
Fcurves == {Fcurve(PathTranslateU, points) : points \in SeqsUpTo(KeyframePoints, MaxKeys)}

NextKeys == \E fcurve \in Fcurves : ExportFcurveToNifKeys(fcurve)

\* The state in which export_fcurve_to_nif_keys is applied
InitKeys == InitAnim /\ block_store = <<>>

\* export_fcurve_to_nif_keys applied to one F-curve
SpecKeys == InitKeys /\ [][NextKeys]_vars

\* The state at the start of a property export: the registry is empty
InitProps ==
    /\ game \in Games
    /\ epsilon \in EpsilonValues
    /\ block_to_obj = <<>>
    /\ node_properties = <<>>
    /\ root_extra_data = <<>>
    /\ pcall = NoPropCall
    /\ LoaderIdle
    /\ AnimIdle
    /\ TexIdle
    /\ NodesIdle

NextProps ==
    \/ \E block_type \in BlockTypes, kwargs \in Kwargs :
          GetMatchingBlockCall(block_type, kwargs)
    \/ \E b_obj \in ExportedObjects, others \in BOOLEAN, textures \in BOOLEAN :
          ExportObjectProperties(b_obj, others, textures)
    \/ \E b_mat \in MaterialsOrNone : ExportSpecularPropertyCall(b_mat)
    \/ \E b_mat \in Materials : ExportStencilPropertyCall(b_mat)

\* The export run: properties are looked up and exported one after the other
SpecProps == InitProps /\ [][NextProps]_vars

\* Motion systems of nifcollision.motion_system
MotionSystems == {<<"M", "O", "_", "S", "Y", "S", "_", "F", "I", "X", "E", "D">>, <<"M", "O", "_", "S", "Y", "S", "_", "B", "O", "X", "_", "S", "T", "A", "B", "I", "L", "I", "Z", "E", "D">>, <<"M", "O", "_", "S", "Y", "S", "_", "I", "N", "V", "A", "L", "I", "D">>}

\* Objects next to the root: a mesh, animated or not, and rigid bodies
\* parented to the object before them, to the root or to nothing
SceneObjects(position) ==
    {SceneObject(FALSE, 1, <<"M", "O", "_", "S", "Y", "S", "_", "I", "N", "V", "A", "L", "I", "D">>, animation_data) : animation_data \in BOOLEAN}
    \cup {SceneObject(TRUE, parent, motion_system, FALSE) :
            parent \in {0, 1, position - 1}, motion_system \in MotionSystems}

\* bpy.data.objects: the root and up to two more objects
Scenes ==
    LET b_root_obj == SceneObject(FALSE, 0, <<"M", "O", "_", "S", "Y", "S", "_", "I", "N", "V", "A", "L", "I", "D">>, FALSE)
    IN {<<b_root_obj>>}
       \cup {<<b_root_obj, second>> : second \in SceneObjects(2)}
       \cup {<<b_root_obj, second, third>> :
                second \in SceneObjects(2), third \in SceneObjects(3)}

\* Values of b_root_obj.niftools.bsxflags
BsxFlagValues == {0, 39, 202}

\* Values of niftools.upb: unset, a bone list, optimizer junk
UpbValues == {<<>>, <<"B", "i", "p", "0", "1", " ", "H", "e", "a", "d">>, <<"M", "a", "s", "s", " ", "=", " ", "0">>}

\* Values of niftools.prn_location
PrnLocations == {<<>>, <<"S", "i", "d", "e", "W", "e", "a", "p", "o", "n">>}

\* An inventory marker: the angles in thousandths of a radian, the zoom in
\* thousandths
Marker(x, y, z) == [name |-> <<"I", "N", "V">>, x |-> x, y |-> y, z |-> z, zoom |-> 1000]

\* Values of niftools.bs_inv: no marker, or one
Markers ==
    {<<>>, <<Marker(0, 1000, 0 - 500)>>, <<Marker(7000, 6283, 3142)>>,
     <<Marker(37699, 0 - 37699, 69114)>>}

\* Root objects that differ from the plain one in one field
UpbRoots == {RootObject(upb, <<>>, <<>>, 0) : upb \in UpbValues}
PrnRoots == {RootObject(<<>>, prn_location, <<>>, 0) : prn_location \in PrnLocations}
MarkedRoots == {RootObject(<<>>, <<>>, bs_inv, 0) : bs_inv \in Markers}

\* The root objects of the export
RootObjects ==
    {RootObject(upb, prn_location, bs_inv, bsxflags) :
        upb \in UpbValues, prn_location \in PrnLocations,
        bs_inv \in {<<>>, <<Marker(0, 1000, 0 - 500)>>}, bsxflags \in {0, 39}}

\* The scenes whose root is exported with all its properties: up to one
\* object next to the root
SmallScenes == {objects \in Scenes : Len(objects) <= 2}

\* The state at the start of the export of the root node
InitBsx ==
    /\ game \in Games \cup {GameEmpireEarth2}
    /\ epsilon \in EpsilonValues
    /\ block_to_obj = <<>>
    /\ node_properties = <<>>
    /\ root_extra_data = <<>>
    /\ pcall = NoPropCall
    /\ LoaderIdle
    /\ AnimIdle
    /\ TexIdle
    /\ NodesIdle

NextBsx ==
    \/ \E objects \in Scenes, bsxflags \in BsxFlagValues :
          ExportBsXFlagsCall(objects, bsxflags)
    \/ \E b_root_obj \in RootObjects, objects \in SmallScenes :
          ExportRootNodePropertiesCall(b_root_obj, objects)
    \/ ExportVertexColorPropertyCall
    \/ ExportZBufferPropertyCall
    \/ \E b_obj \in UpbRoots : ExportNiStringExtraDataUpbCall(b_obj)
    \/ \E b_root_obj \in PrnRoots : ExportNiStringExtraDataPrnCall(b_root_obj)
    \/ \E b_root_obj \in MarkedRoots : ExportBsInvMarkerCall(b_root_obj)

\* The properties of the root node of one export
SpecBsx == InitBsx /\ [][NextBsx]_vars


\* A disk on which every numbered name next to the NIF file is taken
FullDisk ==
    {Join(Dirname(NifPath), NumberedName(n)) : n \in 0..(ImageNameLimit - 1)}

\* The numbers of the first names, among which a crowded disk may have gaps
FreeNumbers == 0..5

\* The crowded disks: every numbered name is taken, or all but some of the
\* first ones, more of them than an import run fills
CrowdedDisks ==
    {FullDisk}
    \cup {FullDisk \ {Join(Dirname(NifPath), NumberedName(n)) : n \in free} :
             free \in {gaps \in SUBSET FreeNumbers : Cardinality(gaps) > MaxCalls}}

\* Embedded sources without a file name
UnnamedSources == {source \in EmbeddedSources : source.file_name = <<>>}

\* The state at the start of an import next to "/p/m.nif" on a crowded disk
InitCrowded ==
    /\ filepath = NifPath
    /\ texture_directory = <<>>
    /\ files \in CrowdedDisks
    /\ corrupt = {}
    /\ images = {}
    /\ external_textures = {}
    /\ writes = <<>>
    /\ lcall = NoCall
    /\ AnimIdle
    /\ OthersIdle

NextCrowded == \E source \in UnnamedSources : ImportEmbeddedTextureSource(source)

\* The import of embedded textures without a file name on a crowded disk
SpecCrowded == InitCrowded /\ [][NextCrowded]_vars

\* The state at the start of a texture export: the registry is empty
InitTexturing ==
    /\ game \in Games \cup {GameMorrowind}
    /\ epsilon \in EpsilonValues
    /\ block_to_obj = <<>>
    /\ node_properties = <<>>
    /\ root_extra_data = <<>>
    /\ pcall = NoPropCall
    /\ LoaderIdle
    /\ AnimIdle
    /\ TexIdle
    /\ NodesIdle

NextTexturing ==
    \/ \E b_mat \in TexturedMaterials, no_lighting \in BOOLEAN,
          applymode \in {"APPLY_MODULATE", "APPLY_REPLACE"} :
            ExportNiTexturingPropertyCall(b_mat, no_lighting, applymode)
    \/ \E b_texture_node \in EffectTextureNodes : ExportTextureEffectCall(b_texture_node)

\* The texturing properties and texture effects are exported one after the
\* other
SpecTexturing == InitTexturing /\ [][NextTexturing]_vars

\* The state before the texturing helper is first used
InitTex ==
    /\ instance = 0
    /\ constructed = 0
    /\ has_b_mat = FALSE
    /\ tcall = NoTexCall
    /\ LoaderIdle
    /\ AnimIdle
    /\ PropsIdle
    /\ NodesIdle

NextTex ==
    \/ \E n_apply_mode \in ApplyModeValues : GetBBlendTypeCall(n_apply_mode)
    \/ \E b_blend_type \in BlendTypes : GetNApplyModeCall(b_blend_type)
    \/ Get
    \/ Construct
    \/ \E b_mat \in BaselessMaterials : \E applymode \in {"APPLY_MODULATE"} :
          ExportNiTexturingPropertyCall(b_mat, FALSE, applymode)

\* The helper's tables and its singleton, called in any order
SpecTex == InitTex /\ [][NextTex]_vars

\* The state inside export_ni_texturing_property once determine_texture_types
\* has stored the material on the helper
InitUvNode ==
    /\ instance = 1
    /\ constructed = 1
    /\ has_b_mat = TRUE
    /\ tcall = NoTexCall
    /\ LoaderIdle
    /\ AnimIdle
    /\ PropsIdle
    /\ NodesIdle

NextUvNode == \E b_texture_node \in TextureNodes : GetUvNodeCall(b_texture_node)

\* The UV lookup of the texture slots of one material
SpecUvNode == InitUvNode /\ [][NextUvNode]_vars

\* The state after clear_default_nodes: the tree holds the output node and the
\* diffuse shader; the import runs next to "/p/m.nif"
InitNodes ==
    /\ filepath = NifPath
    /\ texture_directory = <<>>
    /\ files \in {{}, {PAb}}
    /\ corrupt = {}
    /\ images = {}
    /\ external_textures = {}
    /\ writes = <<>>
    /\ lcall = NoCall
    /\ tree_nodes = <<NewNode(TypeOutputMaterial), NewNode(TypeBsdfDiffuse)>>
    /\ tree_links = <<>>
    /\ node_groups = {}
    /\ diffuse_pass = 0
    /\ diffuse_texture = 0
    /\ vcol = 0
    /\ b_material \in {Material(blend_method) : blend_method \in BlendMethods}
    /\ ncall = NoNodeCall
    /\ AnimIdle
    /\ PropsIdle
    /\ TexIdle

\* NifOp.props.use_embedded_texture and niftools_shader.model_space_normals
\* of a call: the first is read by the loader only (loader.py:81), the second
\* by link_normal_node only (nodes_wrapper:353), so each takes both values
ImportOptions == {<<FALSE, FALSE>>, <<TRUE, TRUE>>}

NextNodes ==
    \/ \E slot_name \in SlotNames, n_tex_info \in TexInfos, options \in ImportOptions :
          CreateAndLink(slot_name, n_tex_info, options[1], options[2])
    \/ \E b_texture_node \in NodePositions, uv_index \in UvSets, reflective \in BOOLEAN :
          SetUvMapCall(b_texture_node, uv_index, reflective)
    \/ ClearDefaultNodesCall
    \/ ConnectVertexColorsToPassCall
    \/ \E has_vcol \in BOOLEAN : ConnectToOutputCall(has_vcol)

\* The material import: textures are created and linked slot by slot
SpecNodes == InitNodes /\ [][NextNodes]_vars

\* The TexDescs of embedded-or-external NiSourceTextures, one per uv set
SlotTexInfos ==
    {n_tex_info \in TexInfos :
        n_tex_info.source.kind = "NiSourceTexture" /\ ~n_tex_info.use_external}

NextSlots ==
    \/ \E slot_name \in SlotNames, n_tex_info \in SlotTexInfos :
          CreateAndLink(slot_name, n_tex_info, FALSE, FALSE)
    \/ \E b_texture_node \in NodePositions, uv_index \in UvSets :
          SetUvMapCall(b_texture_node, uv_index, FALSE)

\* The disk the slots are created on holds "/p/Ab.dds": the texture of uv
\* set 0 is found and loaded, the one of uv set 1 ("q/Ab.dds") is not and is
\* replaced by the placeholder; the material is opaque (create_texture_slot
\* and set_uv_map do not read its blend method)
InitSlots == InitNodes /\ files = {PAb} /\ b_material = Material("OPAQUE")

\* The texture slots of a material are created one after the other, on uv
\* set 0 or 1
SpecSlots == InitSlots /\ [][NextSlots]_vars

\* The six values handed to global_uv_offset_scale
Transforms ==
    {[x |-> Axis(TRUE, v[1], v[3], clamp_x), y |-> Axis(TRUE, v[2], v[4], clamp_y)] :
        v \in {<<1, 1, 0, 0>>, <<2, 3, -1, 4>>}, clamp_x \in BOOLEAN, clamp_y \in BOOLEAN}

\* The texture slots of the materials whose UV transform is imported
TransformedSlots == {<<"B", "a", "s", "e">>, <<"G", "l", "o", "w">>}

NextTransform ==
    \/ \E slot_name \in TransformedSlots, n_tex_info \in TexInfos :
          ncall.given = NoTransform /\ CreateAndLink(slot_name, n_tex_info, FALSE, FALSE)
    \/ \E transform \in Transforms : GlobalUvOffsetScaleCall(transform)
    \/ GetGlobalUvTransformClipCall

\* The textures of a material are imported, its UV transform is applied, and
\* the transform is read back for the export
SpecTransform == InitNodes /\ [][NextTransform]_vars

-----------------------------------------------------------------------------
(***************************************************************************)
(* Claims about the texture loader                                         *)
(***************************************************************************)

\* The call was made with a path string or a NiSourceTexture
SearchedFor == lcall.op = "external" /\ lcall.source.kind \in {"NiSourceTexture", "str"}

\* Every name the search tries for fn
AllNames(fn) == {fn, Lower(fn)} \cup AlternateNames(fn)

\* The file or directory a path handed to Blender names on the disk
FileOf(p) == Stat(BlenderAbspath(p), files)

\* The existing files the search can resolve for fn in any search directory
ResolvableCandidates(fn) ==
    LET dirs == SearchPathList(filepath, texture_directory)
    IN UNION {Resolved(dirs[i], name, files) : i \in 1..Len(dirs), name \in AllNames(fn)}

\* C1: import_external_source never raises, and returns the image loaded from
\* an existing candidate path or, when no candidate path exists, a 1x1
\* placeholder image named after the base name of the file.
C1_LoadedOrPlaceholder ==
    SearchedFor =>
        /\ lcall.raised = ""
        /\ LET fn == NormalizedName(lcall.source)
               candidates == ResolvableCandidates(fn)
           IN IF candidates # {}
              THEN /\ ~lcall.image.generated
                   /\ FileOf(lcall.image.filepath) \in {Stat(q, files) : q \in candidates}
              ELSE /\ lcall.image.generated
                   /\ lcall.image.width = 1 /\ lcall.image.height = 1
                   /\ lcall.image.name = Basename(fn)

\* The search directories in the order of the claim, written out for the
\* import paths: the NIF's directory, the texture directory when set,
\* <cwd>/nif, then the sibling "textures" below a "Meshes" directory and the
\* sibling "shared" where the path holds "art"
ExpectedSearchPath ==
    LET art_meshes == <<"/", "a", "r", "t", "/", "M", "e", "s", "h", "e", "s">>
        game_meshes == <<"/", "g", "/", "M", "e", "s", "h", "e", "s">>
        nif == <<"/", "m", ".", "n", "i", "f">>
    IN <<IF filepath = art_meshes \o nif THEN art_meshes
         ELSE IF filepath = game_meshes \o nif THEN game_meshes
         ELSE <<"/", "p">>>>
       \o (IF texture_directory = <<>> THEN <<>> ELSE <<texture_directory>>)
       \o << <<"/", "w", "/", "n", "i", "f">> >>
       \o (IF filepath = art_meshes \o nif
           THEN << <<"/", "a", "r", "t", "/", "t", "e", "x", "t", "u", "r", "e", "s">>,
                   <<"/", "s", "h", "a", "r", "e", "d">> >>
           ELSE IF filepath = game_meshes \o nif
           THEN << <<"/", "g", "/", "t", "e", "x", "t", "u", "r", "e", "s">> >>
           ELSE <<>>)

\* The files of search directory d that a candidate name of fn names, letter
\* for letter
ExactIn(d, fn) == {Stat(CandidatePath(d, name), files) : name \in AllNames(fn)} \cap files

\* The entries the names lead to from the entries curs when every name is
\* compared ignoring letter case
RECURSIVE CaseWalk(_, _, _)
CaseWalk(curs, names, fs) ==
    IF names = <<>> THEN curs
    ELSE LET name == Head(names)
             Step(cur) ==
                 IF cur \notin Directories THEN {}
                 ELSE IF name = <<".">> THEN {cur}
                 ELSE IF name = <<".", ".">> THEN {Parent(cur)}
                 ELSE {e \in (fs \cup Directories) \ {<<OsSep>>} :
                          Parent(e) = cur /\ Lower(Basename(e)) = Lower(name)}
         IN CaseWalk(UNION {Step(cur) : cur \in curs}, Tail(names), fs)

\* The files and directories of search directory d that a candidate name
\* names when letter case is ignored
MatchIn(d, names) ==
    UNION { LET c == CandidatePath(d, name)
                found == CaseWalk({StartDir(c)}, Components(c), files)
            IN IF c[Len(c)] = OsSep THEN found \cap Directories ELSE found
            : name \in names }

\* C2 as stated: the resolved file lies in the earliest directory that holds
\* a candidate name, where the stored name is preferred over its lower-cased
\* form, which is preferred over the alternate-extension names.
C2_ExactNamePreference ==
    SearchedFor =>
        LET fn == NormalizedName(lcall.source)
            dirs == ExpectedSearchPath
            hit == {i \in 1..Len(dirs) : ExactIn(dirs[i], fn) # {}}
            tex == FileOf(lcall.tex)
        IN hit # {} =>
             LET d == dirs[CHOOSE i \in hit : \A j \in hit : i <= j]
                 stored == Stat(CandidatePath(d, fn), files)
                 lowered == Stat(CandidatePath(d, Lower(fn)), files)
             IN /\ tex \in ExactIn(d, fn)
                /\ stored \in files => tex = stored
                /\ (stored \notin files /\ lowered \in files) => tex = lowered

\* C2 (amended): the directories are tried in the fixed order and every
\* candidate name is looked up ignoring letter case: the resolved entry lies
\* in the earliest directory in which a candidate name, compared ignoring
\* case, names an existing file or directory; there the stored name itself
\* wins when it exists, and an entry equal to the stored name up to case wins
\* over every alternate-extension name.  When no directory has such an entry
\* the stored name itself is handed to load_image.
C2_CaseInsensitivePreference ==
    /\ SearchPathList(filepath, texture_directory) = ExpectedSearchPath
    /\ SearchedFor =>
        LET fn == NormalizedName(lcall.source)
            dirs == ExpectedSearchPath
            hit == {i \in 1..Len(dirs) : MatchIn(dirs[i], AllNames(fn)) # {}}
            tex == FileOf(lcall.tex)
        IN IF hit = {} THEN lcall.tex = fn
           ELSE LET d == dirs[CHOOSE i \in hit : \A j \in hit : i <= j]
                IN /\ tex \in MatchIn(d, AllNames(fn))
                   /\ PathExists(CandidatePath(d, fn), files)
                        => tex = Stat(CandidatePath(d, fn), files)
                   /\ MatchIn(d, {fn}) # {} => tex \in MatchIn(d, {fn})

\* C2 witness: below a "Meshes" directory whose path does not hold "art",
\* the file of <cwd>/nif is resolved although the sibling "textures" holds
\* a candidate too
C2_Witness ==
    /\ lcall.op = "external"
    /\ filepath = GameMeshesPath
    /\ files = {NifDirAb, GameTexturesAb}
    /\ FileOf(lcall.tex) = NifDirAb

\* C3: no path is opened for writing more than once in one run.
C3_NoPathWrittenTwice ==
    \A i, j \in 1..Len(writes) : i # j => writes[i] # writes[j]

\* C4: every written file lies in the directory of the NIF file and has a
\* name that ends in ".dds".
C4_WrittenNextToNifAsDds ==
    \A i \in 1..Len(writes) :
        /\ Dirname(Stat(writes[i], files)) = Dirname(filepath)
        /\ EndsWith(Stat(writes[i], files), <<".", "d", "d", "s">>)

-----------------------------------------------------------------------------
(***************************************************************************)
(* Claims about the texture animation export                               *)
(***************************************************************************)

\* The blocks created by the last export call
NewBlocks == (acall.base + 1)..Len(block_store)

\* The controllers created by the last export call
NewControllers ==
    {k \in NewBlocks : block_store[k].type = "NiTextureTransformController"}

\* The five operations and their data paths, as the claim lists them
ClaimedOperations ==
    {"TT_TRANSLATE_U", "TT_TRANSLATE_V", "TT_ROTATE", "TT_SCALE_U", "TT_SCALE_V"}

ClaimedPath(operation) ==
    CASE operation = "TT_TRANSLATE_U" -> PathTranslateU
      [] operation = "TT_TRANSLATE_V" -> PathTranslateV
      [] operation = "TT_ROTATE" -> PathRotate
      [] operation = "TT_SCALE_U" -> PathScaleU
      [] operation = "TT_SCALE_V" -> PathScaleV

\* The geometry of an object carries a NiTexturingProperty
CarriesTexturingProperty(obj) ==
    /\ obj \in DOMAIN properties
    /\ \E i \in 1..Len(properties[obj]) : properties[obj][i] = "NiTexturingProperty"

\* The action of a controlled block has an F-curve on the path
Animates(b_controlled_block, path) ==
    \E f \in 1..Len(b_controlled_block.action.fcurves) :
        b_controlled_block.action.fcurves[f].data_path = path

\* The controlled blocks of the last call the export does not skip
Exported ==
    {i \in 1..Len(acall.blocks) :
        /\ acall.blocks[i].action.id_root = "NODE_TREE"
        /\ CarriesTexturingProperty(acall.blocks[i].obj)}

\* C5: for every controlled block with a NODE_TREE action and a
\* NiTexturingProperty, exactly one NiTextureTransformController is created
\* per operation of the table whose data path matches an F-curve of the
\* action, with the operation recorded on it, and none for any other operation.
C5_OneControllerPerAnimatedOperation ==
    acall.op = "export_texture_animations" =>
        /\ \A k \in NewControllers : block_store[k].operation \in ClaimedOperations
        /\ \A obj \in Objects, operation \in ClaimedOperations :
             Cardinality({k \in NewControllers :
                            /\ block_store[k].target = obj
                            /\ block_store[k].operation = operation})
             = Cardinality({i \in Exported :
                              /\ acall.blocks[i].obj = obj
                              /\ Animates(acall.blocks[i], ClaimedPath(operation))})

\* C6: the keys of the NiFloatData are one key per keyframe point, in order,
\* with the keyframe's value and with time = frame / fps.
C6_OneKeyPerKeyframe ==
    acall.op = "export_fcurve_to_nif_keys" =>
        /\ Len(acall.keys) = Len(acall.fcurve.keyframe_points)
        /\ \A i \in 1..Len(acall.keys) :
             /\ acall.keys[i].value = acall.fcurve.keyframe_points[i].co[2]
             /\ acall.keys[i].time[2] > 0
             /\ acall.keys[i].time[1] * fps
                  = acall.fcurve.keyframe_points[i].co[1] * acall.keys[i].time[2]

\* C6 witness: two keyframes at different frames were exported
C6_Witness ==
    /\ acall.op = "export_fcurve_to_nif_keys"
    /\ Len(acall.keys) = 2
    /\ acall.fcurve.keyframe_points[1].co[1] = 30
    /\ acall.fcurve.keyframe_points[2].co[1] = 0
    /\ acall.keys[1].value = -7
    /\ acall.keys[1].time # acall.keys[2].time

\* C7: LINEAR gives LINEAR_KEY, CONSTANT gives CONSTANT_KEY, BEZIER gives
\* QUADRATIC_KEY, every other interpolation mode gives LINEAR_KEY.
C7_InterpolationTable ==
    acall.op = "export_fcurve_to_nif_keys" =>
        \A i \in 1..Len(acall.keys) :
            LET mode == acall.fcurve.keyframe_points[i].interpolation
                key_type == acall.keys[i].interpolation
            IN /\ mode = "LINEAR" => key_type = "LINEAR_KEY"
               /\ mode = "CONSTANT" => key_type = "CONSTANT_KEY"
               /\ mode = "BEZIER" => key_type = "QUADRATIC_KEY"
               /\ mode \notin {"LINEAR", "CONSTANT", "BEZIER"} => key_type = "LINEAR_KEY"

\* C7 witness: a BEZIER keyframe and a keyframe of an unmapped mode
C7_Witness ==
    /\ acall.op = "export_fcurve_to_nif_keys"
    /\ Len(acall.keys) = 2
    /\ acall.fcurve.keyframe_points[1].interpolation = "BEZIER"
    /\ acall.fcurve.keyframe_points[2].interpolation = "ELASTIC"
    /\ acall.keys[1].interpolation = "QUADRATIC_KEY"

\* The controlled blocks of the last call whose geometry has no
\* NiTexturingProperty
Skipped ==
    {i \in 1..Len(acall.blocks) :
        /\ acall.blocks[i].action.id_root = "NODE_TREE"
        /\ acall.blocks[i].obj \in DOMAIN properties
        /\ ~CarriesTexturingProperty(acall.blocks[i].obj)}

\* C8: a controlled block whose geometry has no NiTexturingProperty is
\* skipped with a warning: no controller, interpolator or data block is
\* created for it, nothing enters the controller sequence for it, and every
\* later controlled block is still processed.
C8_MissingTexturingPropertySkipped ==
    acall.op = "export_texture_animations" =>
        /\ warnings - acall.base_warnings = Cardinality(Skipped)
        /\ \A k \in NewControllers : CarriesTexturingProperty(block_store[k].target)
        /\ Cardinality(NewBlocks) = 3 * Cardinality(NewControllers)
        /\ \A k \in NewControllers :
             /\ block_store[k].interpolator = k + 1
             /\ block_store[k + 1].data = k + 2
             /\ block_store[k + 2].type = "NiFloatData"
        /\ seq_block.node_name # "" => CarriesTexturingProperty(seq_block.node_name)
        /\ \A i \in Skipped : \A j \in Exported : \A operation \in ClaimedOperations :
             (j > i /\ Animates(acall.blocks[j], ClaimedPath(operation)))
                => \E k \in NewControllers :
                      /\ block_store[k].target = acall.blocks[j].obj
                      /\ block_store[k].operation = operation

\* C9: with fewer than two non-empty lines export_ni_flip_controller logs a
\* warning and does not raise.
C9_TooFewTexturesOnlyWarns ==
    (acall.op = "export_ni_flip_controller" /\ Len(NonEmptyLines(acall.lines)) < 2)
        => /\ warnings = acall.base_warnings + 1
           /\ acall.raised = ""

\* C10: when export_ni_flip_controller fails for want of two textures, the
\* NiFlipController it created is still attached to the target and the
\* textures exported before the failure are still in its source list.
C10_NoRollbackOnFailure ==
    (acall.op = "export_ni_flip_controller" /\ acall.raised # "") =>
        /\ Len(block_store) = acall.base + 1
        /\ block_store[acall.base + 1].type = "NiFlipController"
        /\ \E i \in 1..Len(target_controllers) : target_controllers[i] = acall.base + 1
        /\ block_store[acall.base + 1].sources = NonEmptyLines(acall.lines)
        /\ block_store[acall.base + 1].num_sources = Len(NonEmptyLines(acall.lines))

\* C10 witness: the export failed after one texture was exported
C10_Witness ==
    /\ acall.op = "export_ni_flip_controller"
    /\ acall.raised = "TypeError"
    /\ Len(block_store[acall.base + 1].sources) = 1
    /\ Len(acall.lines) = 3

-----------------------------------------------------------------------------
(***************************************************************************)
(* Claims about embedded payloads that cannot be decoded                   *)
(***************************************************************************)

\* C20: when the payload of an embedded source has an unsupported pixel
\* format, import_embedded_texture_source logs a warning, does not raise,
\* returns an image and records the path as extracted; and no later call
\* opens a recorded path for writing again.
C20_UnsupportedPayloadRecorded ==
    /\ [](( /\ lcall.op = "embedded"
            /\ lcall.wrote
            /\ lcall.source.pixel_data = "unsupported" ) =>
              /\ lcall.raised = ""
              /\ lcall.warned
              /\ lcall.image # NoImage
              /\ lcall.image.name = Basename(lcall.tex)
              /\ lcall.tex \in external_textures)
    /\ [][ ( /\ lcall'.n = lcall.n + 1
             /\ lcall'.op = "embedded"
             /\ lcall'.tex \in external_textures )
           => /\ writes' = writes
              /\ lcall'.raised = ""
              /\ lcall'.image # NoImage ]_vars

\* C20 witness: a later call with an undecodable payload for a path that was
\* recorded before wrote nothing and returned an image
C20_Witness ==
    /\ lcall.op = "embedded"
    /\ lcall.n = 2
    /\ lcall.source.pixel_data = "unsupported"
    /\ ~lcall.wrote
    /\ lcall.raised = ""
    /\ lcall.image # NoImage
    /\ writes = <<lcall.tex>>
    /\ lcall.tex \in external_textures

-----------------------------------------------------------------------------
(***************************************************************************)
(* Claims about the object property export                                 *)
(***************************************************************************)

\* The types of the blocks attached to n_node
AttachedTypes == {block_to_obj[node_properties[i]].type : i \in 1..Len(node_properties)}

\* C11: after export_object_properties for an object with an active
\* material, the wireframe, stencil and specular property blocks whose
\* conditions hold (WIREFRAME modifier; backface culling off; a specular
\* component above epsilon) are in the property list of n_node.
C11_PropertiesAttached ==
    (pcall.op = "export_object_properties" /\ pcall.b_obj.active_material.exists) =>
        LET b_obj == pcall.b_obj
            b_mat == b_obj.active_material
        IN /\ (\E i \in 1..Len(b_obj.modifiers) : b_obj.modifiers[i] = "WIREFRAME")
                 => TypeWireframe \in AttachedTypes
           /\ ~b_mat.use_backface_culling => TypeStencil \in AttachedTypes
           /\ (\E c \in 1..3 : b_mat.specular_color[c] > epsilon)
                 => TypeSpecular \in AttachedTypes

\* A block of the requested type whose fields equal every requested value
Identical(block, block_type, kwargs) ==
    /\ block.type = block_type
    /\ \A param \in Params : kwargs[param] # NoneValue => block[param] = kwargs[param]

\* C12: get_matching_block reuses a block exactly when the registry holds one
\* of the requested type with the requested field values, and otherwise
\* appends one new block of that type with those values; the registry never
\* holds two blocks of one type with the same field values.
C12_ReuseExactlyOnIdenticalFields ==
    /\ pcall.op = "get_matching_block" =>
         LET had == \E i \in 1..Len(pcall.base) :
                        Identical(pcall.base[i], pcall.block_type, pcall.kwargs)
         IN /\ pcall.created <=> ~had
            /\ Identical(block_to_obj[pcall.block], pcall.block_type, pcall.kwargs)
            /\ had => block_to_obj = pcall.base
            /\ ~had => /\ Len(block_to_obj) = Len(pcall.base) + 1
                       /\ SubSeq(block_to_obj, 1, Len(pcall.base)) = pcall.base
                       /\ pcall.block = Len(block_to_obj)
    /\ \A i, j \in 1..Len(block_to_obj) :
         block_to_obj[i] = block_to_obj[j] => i = j

\* C19: export_specular_property never raises; it returns a
\* NiSpecularProperty with the given flags when the game is neither Skyrim,
\* nor a Fallout game, nor an extra-shader-texture game and a specular
\* component exceeds epsilon, and otherwise returns nothing and creates no
\* block.
C19_SpecularPropertyOrNothing ==
    pcall.op = "export_specular_property" =>
        LET b_mat == pcall.b_obj.active_material
            wanted == /\ b_mat.exists
                      /\ game \notin {GameSkyrim, GameFallout3}
                      /\ game \notin {GameRailroads, GameCivilization4}
                      /\ \E c \in 1..3 : b_mat.specular_color[c] > epsilon
        IN /\ pcall.raised = ""
           /\ wanted => /\ pcall.block # 0
                        /\ block_to_obj[pcall.block].type = TypeSpecular
                        /\ block_to_obj[pcall.block].flags = 1
           /\ ~wanted => /\ pcall.block = 0
                         /\ block_to_obj = pcall.base

\* The blend type table as the import side states it
ImportTable ==
    [m \in ApplyModes |->
        CASE m = "APPLY_MODULATE" -> "MIX"
          [] m = "APPLY_REPLACE" -> "COLOR"
          [] m = "APPLY_DECAL" -> "OVERLAY"
          [] m = "APPLY_HILIGHT" -> "LIGHTEN"
          [] m = "APPLY_HILIGHT2" -> "MULTIPLY"]

\* C13: get_b_blend_type_from_n_apply_mode never raises; APPLY_MODULATE gives
\* "MIX", APPLY_REPLACE "COLOR", APPLY_DECAL "OVERLAY", APPLY_HILIGHT
\* "LIGHTEN", APPLY_HILIGHT2 "MULTIPLY", none of them with a warning; every
\* other value gives "MIX" and a warning is logged.
C13_BlendTypeTableTotal ==
    tcall.op = "get_b_blend_type_from_n_apply_mode" =>
        /\ tcall.raised = ""
        /\ tcall.mode \in ApplyModes =>
              tcall.result = ImportTable[tcall.mode] /\ ~tcall.warned
        /\ tcall.mode \notin ApplyModes => tcall.result = "MIX" /\ tcall.warned

\* C13 witness: APPLY_HILIGHT2 was looked up and gave "MULTIPLY", then a value
\* that is no apply mode was looked up and gave "MIX" with a warning
C13_Witness ==
    /\ tcall.op = "get_b_blend_type_from_n_apply_mode"
    /\ tcall.mode = "None" /\ tcall.result = "MIX" /\ tcall.warned
    /\ tcall.prev.op = "get_b_blend_type_from_n_apply_mode"
    /\ tcall.prev.mode = "APPLY_HILIGHT2" /\ tcall.prev.result = "MULTIPLY"

\* The blend types the export table maps
ExportMapped == {"LIGHTEN", "MULTIPLY", "MIX"}

\* C14: get_n_apply_mode_from_b_blend_type never raises; "LIGHTEN" gives
\* APPLY_HILIGHT, "MULTIPLY" APPLY_HILIGHT2 and "MIX" APPLY_MODULATE, without
\* a warning; every other blend type gives APPLY_MODULATE and a warning is
\* logged.
C14_ApplyModeTableTotal ==
    tcall.op = "get_n_apply_mode_from_b_blend_type" =>
        /\ tcall.raised = ""
        /\ tcall.mode = "LIGHTEN" => tcall.result = "APPLY_HILIGHT" /\ ~tcall.warned
        /\ tcall.mode = "MULTIPLY" => tcall.result = "APPLY_HILIGHT2" /\ ~tcall.warned
        /\ tcall.mode = "MIX" => tcall.result = "APPLY_MODULATE" /\ ~tcall.warned
        /\ tcall.mode \notin ExportMapped =>
              tcall.result = "APPLY_MODULATE" /\ tcall.warned

\* C14 witness: "MIX" was looked up and gave APPLY_MODULATE silently, then
\* "ADD" was looked up and gave APPLY_MODULATE with a warning
C14_Witness ==
    /\ tcall.op = "get_n_apply_mode_from_b_blend_type"
    /\ tcall.mode = "ADD" /\ tcall.result = "APPLY_MODULATE" /\ tcall.warned
    /\ tcall.prev.op = "get_n_apply_mode_from_b_blend_type"
    /\ tcall.prev.mode = "MIX" /\ tcall.prev.result = "APPLY_MODULATE"

\* C15: the two tables are inverse to each other: exporting the blend type
\* that one of the five apply modes was imported to gives that apply mode
\* back, and importing the apply mode that "LIGHTEN", "MULTIPLY" or "MIX" was
\* exported to gives that blend type back.
C15_TablesAreInverse ==
    /\ ( /\ tcall.op = "get_n_apply_mode_from_b_blend_type"
         /\ tcall.prev.op = "get_b_blend_type_from_n_apply_mode"
         /\ tcall.prev.mode \in ApplyModes
         /\ tcall.mode = tcall.prev.result )
       => tcall.result = tcall.prev.mode
    /\ ( /\ tcall.op = "get_b_blend_type_from_n_apply_mode"
         /\ tcall.prev.op = "get_n_apply_mode_from_b_blend_type"
         /\ tcall.prev.mode \in ExportMapped
         /\ tcall.mode = tcall.prev.result )
       => tcall.result = tcall.prev.mode

\* The positions in the chain of the UV Map and Texture Coordinate nodes
Feeders(chain) == {i \in 1..Len(chain) : chain[i] \in {TypeUVMap, TypeTexCoord}}

\* The type of the nearest of them
NearestFeeder(chain) ==
    chain[CHOOSE i \in Feeders(chain) : \A j \in Feeders(chain) : i <= j]

\* What the claim expects for each UV map name: the integer written after
\* its first two characters, 0 where that is no integer literal (a sign and
\* surrounding blanks belong to a literal, single underscores may separate
\* its digits; an information separator does not)
IntegerAfterPrefix ==
    <<"U", "V", "0">> :> 0 @@
    <<"U", "V", "1">> :> 1 @@
    <<"U", "V", "1", "2">> :> 12 @@
    <<"U", "V", "M", "a", "p">> :> 0 @@
    <<"U", "V">> :> 0 @@
    <<>> :> 0 @@
    <<"U">> :> 0 @@
    <<"U", "V", "-", "1">> :> 0 - 1 @@
    <<"U", "V", "+", "2">> :> 2 @@
    <<"U", "V", " ", "3">> :> 3 @@
    <<"U", "V", "\r", "1">> :> 1 @@
    <<"U", "V", "2", "\f">> :> 2 @@
    <<"U", "V", "", "1">> :> 1 @@
    <<"U", "V", " ", "6">> :> 6 @@
    <<"U", "V", "2", "">> :> 2 @@
    <<"U", "V", "", "4", "">> :> 4 @@
    <<"U", "V", "", "4", "">> :> 0 @@
    <<"U", "V", "", "5">> :> 0 @@
    <<"U", "V", "7", "">> :> 0 @@
    <<"U", "V", "", "8">> :> 0 @@
    <<"U", "V", "1", "_", "0">> :> 10 @@
    <<"U", "V", "1", "a">> :> 0 @@
    <<"U", "V", "_", "1">> :> 0 @@
    <<"a", "b", "3">> :> 3 @@
    <<"1", "2">> :> 0

\* C16: get_uv_node raises NifError exactly when the vector input is linked
\* and neither a UV Map nor a Texture Coordinate node feeds it.  Otherwise it
\* returns 0 when nothing is plugged in, the integer after the "UV" prefix of
\* the UV map name (0 if that is no integer) for a UV Map node, and "REFLECT"
\* for a Texture Coordinate node.
C16_UvNodeOrHardError ==
    tcall.op = "get_uv_node" =>
        LET chain == tcall.node.chain
            uv_name == tcall.node.uv_map
        IN /\ tcall.raised = "NifError" <=> (chain # <<>> /\ Feeders(chain) = {})
           /\ tcall.raised \in {"", "NifError"}
           /\ chain = <<>> => tcall.result = "int" /\ tcall.value = 0
           /\ (Feeders(chain) # {} /\ NearestFeeder(chain) = TypeUVMap) =>
                 /\ tcall.result = "int"
                 /\ uv_name \in DOMAIN IntegerAfterPrefix
                 /\ tcall.value = IntegerAfterPrefix[uv_name]
           /\ (Feeders(chain) # {} /\ NearestFeeder(chain) = TypeTexCoord) =>
                 tcall.result = "REFLECT"

\* C16 witness: a texture node whose vector input is fed by an RGB node
\* through a Mapping node was looked up, and the lookup raised NifError
C16_Witness ==
    /\ tcall.op = "get_uv_node"
    /\ tcall.node.chain = <<TypeMapping, TypeRGB>>
    /\ tcall.raised = "NifError"

\* C17: at most one NiTexturingProperty is ever constructed successfully;
\* get() never raises and returns the stored instance, the same one every
\* time; the constructor called while an instance is stored raises and leaves
\* the stored instance as it was.
C17_Singleton ==
    /\ constructed <= 1
    /\ instance = constructed
    /\ tcall.op = "get" =>
          /\ tcall.raised = ""
          /\ tcall.value = 1 /\ tcall.value = instance
          /\ tcall.base # 0 => tcall.value = tcall.base
    /\ (tcall.op = "__init__" /\ tcall.base # 0) =>
          tcall.raised = "Exception" /\ instance = tcall.base

\* C17 witness: after a get() the constructor was called directly and raised
C17_Witness ==
    /\ tcall.op = "__init__"
    /\ tcall.prev.op = "get"
    /\ tcall.base = 1
    /\ tcall.raised = "Exception"
    /\ instance = 1

\* The image texture nodes the last create_and_link call added to the tree
CreatedTextureNodes ==
    {i \in (Len(ncall.base_nodes) + 1)..Len(tree_nodes) : tree_nodes[i].type = TypeTexImage}

\* C18: create_and_link looks for the method link_<slot>_node, the slot name
\* lower-cased and its spaces replaced by underscores.  When there is no such
\* method the node tree is left as it was and no image is loaded; when there
\* is one, exactly one image texture node is created and it is the node
\* handed to the method.
C18_DispatchBySlotName ==
    ncall.op = "create_and_link" =>
        /\ ncall.func = <<"l", "i", "n", "k", "_">>
                        \o Replace(Lower(ncall.slot_name), " ", "_")
                        \o <<"_", "n", "o", "d", "e">>
        /\ ncall.func \notin LinkMethods =>
              /\ tree_nodes = ncall.base_nodes
              /\ tree_links = ncall.base_links
              /\ images = ncall.base_images
              /\ lcall.n = ncall.base_loads
        /\ ncall.func \in LinkMethods =>
              /\ Cardinality(CreatedTextureNodes) = 1
              /\ ncall.passed \in CreatedTextureNodes

-----------------------------------------------------------------------------
(***************************************************************************)
(* Claims about generated names, the image cache and the duplicate lookup  *)
(***************************************************************************)

\* name has the form imageNNNN.dds
IsNumberedName(name) ==
    /\ Len(name) = 13
    /\ Prefix(name, 5) = <<"i", "m", "a", "g", "e">>
    /\ \A i \in 6..9 : IsDigit(name[i])
    /\ Suffix(name, 4) = <<".", "d", "d", "s">>

\* C21: an embedded texture without a file name is written to a path
\* imageNNNN.dds in the directory of the NIF file that did not exist on disk
\* before the call, whichever of the numbered names are taken.
C21_GeneratedNameIsFree ==
    [][ ( /\ lcall'.n = lcall.n + 1
          /\ lcall'.op = "embedded"
          /\ lcall'.source.file_name = <<>>
          /\ lcall'.wrote )
        => /\ ~PathExists(lcall'.tex, files)
           /\ Dirname(lcall'.tex) = Dirname(filepath)
           /\ IsNumberedName(Basename(lcall'.tex)) ]_vars

\* C22: the image load_image returns stands for the path it was given: its
\* filepath is tex_path, also when an image of the same base name was loaded
\* from another path before, and it is no placeholder when the file of
\* tex_path is on disk and can be decoded, also when an earlier load of that
\* name failed.
C22_ImageStandsForItsPath ==
    (lcall.op \in {"external", "embedded"} /\ lcall.raised = "") =>
        /\ lcall.image.filepath = lcall.tex
        /\ CanLoad(lcall.tex, files, corrupt) => ~lcall.image.generated

\* The NiTexturingProperty blocks of a registry
TexturingBlocks(registry) == {i \in 1..Len(registry) : registry[i].type = TypeTexturing}

\* C23: the registry never holds two NiTexturingProperty blocks of the same
\* hash: a call whose property hashes equal to a registered one attaches the
\* registered block to the geometry and leaves the registry's texturing
\* blocks as they were; a call that registers a new block had no registered
\* block of that hash.
C23_NoDuplicateTexturingProperty ==
    /\ \A i, j \in TexturingBlocks(block_to_obj) :
          i # j => GetHash(block_to_obj[i]) # GetHash(block_to_obj[j])
    /\ (pcall.op = "export_ni_texturing_property" /\ pcall.block # 0) =>
          /\ node_properties[Len(node_properties)] = pcall.block
          /\ block_to_obj[pcall.block].type = TypeTexturing
          /\ ~pcall.created =>
                /\ pcall.block \in TexturingBlocks(pcall.base)
                /\ TexturingBlocks(block_to_obj) = TexturingBlocks(pcall.base)
          /\ pcall.created =>
                \A i \in TexturingBlocks(pcall.base) :
                    GetHash(pcall.base[i]) # GetHash(block_to_obj[pcall.block])

\* C23 witness: the second call built a property equal to the one the first
\* call registered, and attached that one
C23_Witness ==
    /\ pcall.op = "export_ni_texturing_property"
    /\ pcall.n = 2
    /\ pcall.block # 0 /\ ~pcall.created
    /\ Len(node_properties) = 2
    /\ node_properties[1] = node_properties[2]
    /\ Cardinality(TexturingBlocks(block_to_obj)) = 1


-----------------------------------------------------------------------------
(***************************************************************************)
(* Claims about the links to the exported controllers                      *)
(***************************************************************************)

\* The controllers on the chain that starts at block k and follows the
\* next_controller links
RECURSIVE ControllerChain(_, _)
ControllerChain(k, steps) ==
    IF k = 0 \/ steps = 0 THEN {}
    ELSE {k} \cup ControllerChain(NextController(block_store, k), steps - 1)

\* The controlled blocks the sequence holds after the call
SequenceBlocks == IF seq_block = NoControlledBlock THEN {} ELSE {seq_block}

\* C24: after export_texture_animations every NiTextureTransformController
\* created for a geometry is reachable from the output: from the geometry's
\* NiTexturingProperty through its controller link and the next-controller
\* links, or from a controlled block of the supplied sequence; also when
\* several operations of one action are animated and no sequence is given.
C24_EveryControllerReachable ==
    acall.op = "export_texture_animations" =>
        \A k \in NewControllers :
            \/ k \in ControllerChain(texprop_controller[block_store[k].target],
                                     Len(block_store))
            \/ /\ acall.use_sequence
               /\ \E b \in SequenceBlocks : b.controller = k

\* C25: with a sequence every exported operation adds exactly one controlled
\* block of its own (controller the new controller, node_name the geometry's
\* name, property_type NiTexturingProperty, controller_type
\* NiTextureTransformController, controller_id 0-0-<operation>) and its
\* interpolator is a NiBlendFloatInterpolator of flags 1; without a sequence
\* the interpolator is a NiFloatInterpolator and no controlled block is made.
C25_OneControlledBlockPerOperation ==
    acall.op = "export_texture_animations" =>
        /\ \A k \in NewControllers :
              LET interpolator == block_store[block_store[k].interpolator]
              IN IF acall.use_sequence
                 THEN /\ interpolator.type = "NiBlendFloatInterpolator"
                      /\ interpolator.flags = 1
                 ELSE interpolator.type = "NiFloatInterpolator"
        /\ acall.use_sequence =>
              /\ Cardinality(SequenceBlocks) = Cardinality(NewControllers)
              /\ \A k \in NewControllers : \E b \in SequenceBlocks :
                    /\ b.controller = k
                    /\ b.node_name = block_store[k].target
                    /\ b.property_type = "NiTexturingProperty"
                    /\ b.controller_type = "NiTextureTransformController"
                    /\ b.controller_id = <<"0-0-", block_store[k].operation>>
        /\ ~acall.use_sequence => SequenceBlocks = {}


\* The F-curve of the last call's action for UV group g, 0 when it has none
UvCurveOf(g) ==
    LET fcurves == acall.action.fcurves
        hits == {i \in 1..Len(fcurves) :
                    /\ Find(fcurves[i].data_path, UvCurveKeys[g][1]) # -1
                    /\ fcurves[i].array_index = UvCurveKeys[g][2]}
    IN IF hits = {} THEN 0 ELSE CHOOSE i \in hits : \A j \in hits : i <= j

\* The UV groups of the last call's action
UvGroupNumbers == 1..Len(UvCurveKeys)

\* C26: export_ni_uv_controller completes without error for every action;
\* without an offset or scale F-curve it creates nothing; with at least one
\* of the four present, whichever are missing, and key data on a present
\* curve, a NiUVController is attached to the geometry whose NiUVData has
\* the groups of the present curves filled: one key per keyframe point, time
\* frame / fps, the value negated for the offset curves.
C26_UvControllerCompletes ==
    acall.op = "export_ni_uv_controller" =>
        /\ acall.raised = ""
        /\ Len(block_store) = acall.base
        /\ (\A g \in UvGroupNumbers : UvCurveOf(g) = 0) => geometry_controllers = <<>>
        /\ (\E g \in UvGroupNumbers :
                /\ UvCurveOf(g) # 0
                /\ acall.action.fcurves[UvCurveOf(g)].keyframe_points # <<>>) =>
              /\ Len(geometry_controllers) = 1
              /\ LET n_ni_uv_controller == geometry_controllers[1]
                 IN
                 /\ n_ni_uv_controller.type = "NiUVController"
                 /\ n_ni_uv_controller.timed_with = [g \in UvGroupNumbers |-> UvCurveOf(g)]
                 /\ n_ni_uv_controller.data.type = "NiUVData"
                 /\ \A g \in UvGroupNumbers : UvCurveOf(g) # 0 =>
                       LET fcu == acall.action.fcurves[UvCurveOf(g)]
                           group == n_ni_uv_controller.data.uv_groups[g]
                       IN /\ group.num_keys = Len(fcu.keyframe_points)
                          /\ Len(group.keys) = Len(fcu.keyframe_points)
                          /\ \A j \in 1..Len(group.keys) :
                                /\ group.keys[j].time =
                                      Fraction(fcu.keyframe_points[j].co[1], fps)
                                /\ group.keys[j].value =
                                      (IF g <= 2 THEN -1 ELSE 1)
                                      * fcu.keyframe_points[j].co[2]


-----------------------------------------------------------------------------
(***************************************************************************)
(* Claims about the BSX flags                                              *)
(***************************************************************************)

\* The colliders of the exported scene: the objects with a rigid body
Colliders == {i \in 1..Len(pcall.objects) : pcall.objects[i].rigid_body}

\* The colliders with a dynamic motion system
DynamicColliders ==
    {i \in Colliders :
        /\ Find(pcall.objects[i].motion_system, MotionInvalid) = 0 - 1
        /\ Find(pcall.objects[i].motion_system, MotionFixed) = 0 - 1}

\* The bits the export decides
DecidedBits == {1, 2, 4, 32}

\* The bits of a value the export leaves to the user, as the set of their masks
UserBits(x) == {b \in ({2^e : e \in 0..7} \ DecidedBits) : BitIsSet(x, b)}

\* The BSXFlags blocks among the extra data of the root
AttachedBsxFlags ==
    {i \in 1..Len(root_extra_data) : root_extra_data[i].block.type = TypeBsxFlags}

\* C27: for a Bethesda game export_bs_x_flags, called on its own or at the
\* end of export_root_node_properties, attaches exactly one BSXFlags block
\* named BSX to the root; its integer value has bit 0x1 iff an object has
\* animation data, bit 0x2 iff a collider exists, bit 0x4 iff a dynamic
\* collider exists and more than one collider exists, bit 0x20 iff a dynamic
\* collider exists, and the user's value in every other bit; for another
\* game no BSXFlags block is attached.
C27_BsxFlagsFollowTheScene ==
    pcall.op \in {"export_bs_x_flags", "export_root_node_properties"} =>
        IF IsBs(game)
        THEN /\ pcall.raised = ""
             /\ Cardinality(AttachedBsxFlags) = 1
             /\ LET attached == root_extra_data[CHOOSE i \in AttachedBsxFlags : TRUE]
                    n_bs_x_flags == block_to_obj[attached.position]
                    v == n_bs_x_flags.integer_data
                IN /\ n_bs_x_flags.type = TypeBsxFlags
                   /\ n_bs_x_flags.name = NameBsx
                   /\ BitIsSet(v, 1) <=>
                         \E i \in 1..Len(pcall.objects) : pcall.objects[i].animation_data
                   /\ BitIsSet(v, 2) <=> Colliders # {}
                   /\ BitIsSet(v, 4) <=>
                         (DynamicColliders # {} /\ Cardinality(Colliders) > 1)
                   /\ BitIsSet(v, 32) <=> DynamicColliders # {}
                   /\ UserBits(v) = UserBits(pcall.bsxflags)
        ELSE AttachedBsxFlags = {}


-----------------------------------------------------------------------------
(***************************************************************************)
(* Claims about the UV nodes of the imported tree                          *)
(***************************************************************************)

\* The nodes of a type in the tree
NodesOfType(node_type) == {i \in 1..Len(tree_nodes) : tree_nodes[i].type = node_type}

\* The links into the vector input of a node
VectorLinks(b_texture_node) ==
    {l \in 1..Len(tree_links) :
        tree_links[l].to = b_texture_node /\ tree_links[l].inp = "0"}

\* The uv index the last call gave its texture node
LastUvIndex == ncall.uv_index

\* The name and the uv_map the claim gives the UV Map node of each uv index
ClaimedUvNodes ==
    (0 :> [name |-> <<"T", "e", "x", "C", "o", "o", "r", "d", "I", "n", "d", "e", "x", "_", "0">>, uv_map |-> <<"U", "V", "0">>]) @@
    (1 :> [name |-> <<"T", "e", "x", "C", "o", "o", "r", "d", "I", "n", "d", "e", "x", "_", "1">>, uv_map |-> <<"U", "V", "1">>])

\* u is the UV Map node of uv index i as the claim describes it
IsUvNodeOf(u, i) ==
    /\ tree_nodes[u].type = TypeUVMap
    /\ tree_nodes[u].name = ClaimedUvNodes[i].name
    /\ tree_nodes[u].uv_map = ClaimedUvNodes[i].uv_map

\* C28: after any sequence of create_texture_slot and set_uv_map calls
\* (reflective=False) the tree holds at most one UV Map node per uv index,
\* named TexCoordIndex_<i> and with uv_map "UV<i>", and the vector input of
\* every image texture node holds one link, from a UV Map node, the one of
\* its uv index.
C28_OneUvNodePerIndex ==
    /\ \A u \in NodesOfType(TypeUVMap) : \E i \in DOMAIN ClaimedUvNodes : IsUvNodeOf(u, i)
    /\ \A i \in DOMAIN ClaimedUvNodes :
          Cardinality({u \in NodesOfType(TypeUVMap) :
                         \/ tree_nodes[u].name = ClaimedUvNodes[i].name
                         \/ tree_nodes[u].uv_map = ClaimedUvNodes[i].uv_map}) <= 1
    /\ \A b_texture_node \in NodesOfType(TypeTexImage) :
          /\ Cardinality(VectorLinks(b_texture_node)) = 1
          /\ \A l \in VectorLinks(b_texture_node) :
                tree_nodes[tree_links[l].from].type = TypeUVMap
    /\ ncall.passed # 0 =>
          /\ LastUvIndex \in DOMAIN ClaimedUvNodes
          /\ \E l \in VectorLinks(ncall.passed) :
                IsUvNodeOf(tree_links[l].from, LastUvIndex)

\* C28 witness: the second texture uses the uv index of the first and is
\* linked to the UV Map node the first call created
C28_Witness ==
    /\ ncall.n = 2
    /\ ncall.passed # 0
    /\ Cardinality(NodesOfType(TypeTexImage)) = 2
    /\ Cardinality(NodesOfType(TypeUVMap)) = 1
    /\ \E u \in NodesOfType(TypeUVMap) :
          /\ u <= Len(ncall.base_nodes)
          /\ IsUvNodeOf(u, LastUvIndex)
          /\ \A b_texture_node \in NodesOfType(TypeTexImage) :
                \E l \in VectorLinks(b_texture_node) : tree_links[l].from = u


\* C29: on a tree with a UV0 map node feeding an image texture, the six
\* values get_global_uv_transform_clip returns are the six values
\* global_uv_offset_scale was called with, for every combination of the two
\* clamp flags.
C29_GlobalUvTransformRoundTrips ==
    ( /\ ncall.op = "get_global_uv_transform_clip"
      /\ ncall.given # NoTransform
      /\ ExistingUvNode(tree_nodes, 0) # 0 )
    => ncall.returned = ncall.given

=============================================================================
